---- MODULE Spec2Model ----
(***************************************************************************)
(* Model of the SLE aggregation engine of MistSiteDashboard                *)
(* (src/mist_connection.py, src/app.py).                                   *)
(*                                                                         *)
(* Conventions                                                             *)
(*  - A Python value that may be None is a sequence of length <= 1:        *)
(*    None is <<>> and the value v is <<v>>.                               *)
(*  - A string that the code inspects with startswith()/replace() is a     *)
(*    sequence of tokens ("switch-health-v2" is <<"switch-health","-v2">>),*)
(*    so prefix tests and suffix removal are computed, not assumed.        *)
(*  - A percentage rounded to one decimal is an integer number of tenths   *)
(*    (83.3 is 833).                                                       *)
(*  - A Python dict is a function; "key in d" is key \in DOMAIN d.         *)
(***************************************************************************)
EXTENDS Integers, Sequences, FiniteSets, TLC

VARIABLES
    pc,              \* position of the request being served
    duration,        \* the duration argument of the MistConnection method
    req_duration,    \* the duration token as the caller supplied it
    via_route,       \* TRUE when the method was entered through its Flask route
    use_timestamps,  \* get_site_sle local
    start_time,      \* get_site_sle local
    end_time,        \* get_site_sle local
    api_duration,    \* get_site_sle local
    enabled_kind,    \* how the listSiteSlesMetrics call ended
    enabled_metrics, \* get_site_sle / get_sle_details local
    idx,             \* position of the for loop over the metrics
    sle_data,        \* get_site_sle local: the result being built
    ref_sle,         \* reference run of get_site_sle over the non-failing metrics only
    outcomes,        \* history: how each loop iteration so far ended (see SleOutcome)
    calls,           \* upstream calls issued by the request, in order
    category,        \* get_sle_details argument
    category_metrics,\* get_sle_details local: the catalog metrics enabled for the site
    result,          \* get_sle_details local: result["metrics"]
    metric_data,     \* get_sle_details local: the MetricDetail being built
    classifier_impact_map, \* get_sle_details local
    det_outcomes,    \* history: how the trend fetch of each iteration so far ended
    clf_zero_seen,   \* history: a trend response carried a classifier whose degraded sum is 0
    clf_budget,      \* classifier entries the next trend response may carry: at most one
                     \* response of a request carries any, and at most MaxClf
    sc_total,        \* score check: total[] of the series
    sc_degraded,     \* score check: degraded[] of the series
    sc_site,         \* score check: what get_site_sle writes for the series
    sc_detail,       \* score check: sle_value that get_sle_details writes
    ck_head,         \* classifier check: the trend response up to its classifiers
    raw_classifiers, \* classifier check: get_sle_details local, the trend response's list
    ck_legacy_kind,  \* classifier check: how the legacy summary fetch ended
    ck_impact_map,   \* classifier check: classifier_impact_map built from the legacy answer
    ck_metric_data,  \* classifier check: the MetricDetail get_sle_details stores
    ck_ref_data,     \* classifier check: the MetricDetail of the reference run, in which
                     \* the legacy fetch answers an impact object for every classifier
    item_type,       \* get_sle_impacted_items argument
    it_classifier,   \* get_sle_impacted_items argument "classifier"
    it_via_route,    \* TRUE when get_sle_impacted_items was entered through its route
    it_calls,        \* upstream calls issued by the impacted-items request, in order
    it_data,         \* the upstream answer to the impacted-items call
    it_result,       \* what the impacted-items request returns
    org_entry,       \* org-wide ranker: the entry point called ("insights" or "by_metric")
    org_arg,         \* its sle_type or metric argument
    org_duration,    \* its duration argument
    org_limit,       \* its limit argument
    org_id,          \* self.org_id of the connection
    org_sites,       \* the sites the upstream holds for the organization
    page,            \* local of the site-list pagination
    site_name_map,   \* local: site id -> site name
    org_page_lens,   \* history: how each listOrgSites call was answered
    org_calls,       \* upstream calls issued by the ranker, in order
    org_response,    \* the upstream answer to the ranking call
    org_result,      \* what the ranker returns
    det_error,       \* the error get_sle_details raised for its category argument
    exp_category,    \* export_sle_csv route argument
    exp_calls,       \* upstream calls issued by the export request, in order
    exp_response,    \* what the export_sle_csv route answers
    csv_order,       \* CSV rows check: the keys of data["metrics"], in insertion order
    csv_data,        \* CSV rows check: data["metrics"] as get_sle_details returns it
    csv_rows,        \* CSV rows check: the rows handed to writer.writerow, in order
    conn_global,     \* app.py module global _mist_connection
    conn_made,       \* history: MistConnection objects constructed so far
    conn_session,    \* self.session of each MistConnection constructed so far
    sess_made,       \* history: APISession objects constructed so far
    th_pc,           \* position of each request thread in get_mist_connection / _get_session
    th_conn,         \* what get_mist_connection returned to each thread
    th_sess,         \* what _get_session returned to each thread
    overlapped       \* history: two threads were inside a get-or-create at the same time

sleVars == <<duration, req_duration, via_route, use_timestamps, start_time, end_time,
             api_duration, enabled_kind, enabled_metrics, idx, sle_data, ref_sle,
             outcomes, calls>>
detVars == <<category, category_metrics, result, metric_data, classifier_impact_map,
             det_outcomes, clf_zero_seen, clf_budget>>
scVars == <<sc_total, sc_degraded, sc_site, sc_detail>>
ckVars == <<ck_head, raw_classifiers, ck_legacy_kind, ck_impact_map, ck_metric_data,
            ck_ref_data>>
itVars == <<item_type, it_classifier, it_via_route, it_calls, it_data, it_result>>
orgVars == <<org_entry, org_arg, org_duration, org_limit, org_id, org_sites, page,
             site_name_map, org_page_lens, org_calls, org_response, org_result>>
expVars == <<exp_category, exp_calls, exp_response, csv_order, csv_data, csv_rows>>
connVars == <<conn_global, conn_made, conn_session, sess_made, th_pc, th_conn, th_sess,
              overlapped>>
vars == <<pc, sleVars, detVars, scVars, ckVars, itVars, orgVars, det_error, expVars,
          connVars>>

----------------------------------------------------------------------------
(* Bounds of the model *)

MaxLen == 2        \* longest sample array returned by the upstream
MaxEnabled == 2    \* longest "enabled" list returned by the upstream
MaxVal == 2        \* largest sample value of the score check
MaxBuckets == 2    \* most time buckets of a series in the score check
MaxClf == 2        \* most classifier entries of a trend response
MaxItems == 6      \* most items of an impacted-items response in the ranking check
MaxRows == 2       \* most rows of a ranking response
MaxLimit == 2      \* largest limit argument of the org-wide ranker
MaxThreads == 2    \* request threads of the server
MaxLegacy == 2     \* most classifier entries of a legacy summary response

----------------------------------------------------------------------------
(* Python values *)

None == <<>>
Some(v) == <<v>>
IsNone(x) == x = <<>>
Val(x) == x[1]

RECURSIVE SumSeq(_)
\* sum(...) over a list of integers
SumSeq(s) == IF s = <<>> THEN 0 ELSE Head(s) + SumSeq(Tail(s))

\* [x for x in samples if x is not None]
NotNone(samples) == SelectSeq(samples, LAMBDA x : x # None)

RECURSIVE Unwrap(_)
Unwrap(s) == IF s = <<>> THEN <<>> ELSE <<Val(Head(s))>> \o Unwrap(Tail(s))

\* sum([x for x in samples if x is not None])
SumNotNone(samples) == SumSeq(Unwrap(NotNone(samples)))

\* round(n / d, 0) for d > 0 as Python rounds: to nearest, ties to even
RoundHalfEven(n, d) ==
    LET q == n \div d
        r == n % d
    IN  IF 2 * r < d THEN q
        ELSE IF 2 * r > d THEN q + 1
        ELSE IF q % 2 = 0 THEN q ELSE q + 1

\* mutant: the score is cut to one decimal instead of rounded
SleValue_Truncates(total_sum, degraded_sum) ==
    (1000 * (total_sum - degraded_sum)) \div total_sum

\* round(((total_sum - degraded_sum) / total_sum) * 100, 1), in tenths
SleValue(total_sum, degraded_sum) ==
    RoundHalfEven(1000 * (total_sum - degraded_sum), total_sum)

\* sequences over S of length at most n
SeqsUpTo(S, n) == UNION {[1..k -> S] : k \in 0..n}

----------------------------------------------------------------------------
(* Strings as token sequences *)

\* s.startswith(p)
StartsWith(s, p) == Len(p) <= Len(s) /\ SubSeq(s, 1, Len(p)) = p

\* s.replace(tok, "")
Remove(s, tok) == SelectSeq(s, LAMBDA t : t # tok)

\* metric.replace("-v2", "").replace("-v4", "").replace("-new", "")
DisplayName(metric) == Remove(Remove(Remove(metric, "-v2"), "-v4"), "-new")

----------------------------------------------------------------------------
(* Metric catalog *)

CategoryOrder == <<"wifi", "wired", "wan">>

metric_categories ==
    [wifi  |-> << <<"coverage">>, <<"capacity">>, <<"time-to-connect">>, <<"roaming">>,
                  <<"throughput">>, <<"ap-availability">>, <<"ap-health">> >>,
     wired |-> << <<"switch-health">>, <<"switch-throughput">>, <<"switch-stc">> >>,
     wan   |-> << <<"gateway-health">>, <<"wan-link-health">>, <<"application-health">>,
                  <<"gateway-bandwidth">> >>]

Range(s) == {s[i] : i \in DOMAIN s}

\* metric in cat_metrics or any(metric.startswith(m) for m in cat_metrics)
InCategory(metric, cat) ==
    \/ metric \in Range(metric_categories[cat])
    \/ \E m \in Range(metric_categories[cat]) : StartsWith(metric, m)

\* the for/break loop over metric_categories.items(): first category that matches,
\* None when no category matches
CategoryOf(metric) ==
    LET hits == {i \in DOMAIN CategoryOrder : InCategory(metric, CategoryOrder[i])}
    IN  IF hits = {} THEN None
        ELSE Some(CategoryOrder[CHOOSE i \in hits : \A j \in hits : i <= j])

\* metric names the upstream may report as enabled
MetricUniverse ==
    { <<"coverage">>, <<"switch-health">>, <<"switch-health", "-v2">>,
      <<"gateway-health", "-new">>, <<"client-events">> }

----------------------------------------------------------------------------
(* Upstream responses *)

SleSampleVals == {None, Some(0), Some(1)}
SleSampleSeqs == SeqsUpTo(SleSampleVals, MaxLen)

\* getSiteSleSummaryTrend: the call raises, the data is no dict, the dict has no
\* "sle" key, "sle" is null, or "sle" carries the two sample arrays
TrendResponses ==
    {[kind |-> k, total |-> <<>>, degraded |-> <<>>] : k \in {"error", "nondict", "nosle", "badsle"}}
    \cup {[kind |-> "sle", total |-> t, degraded |-> d] : t \in SleSampleSeqs, d \in SleSampleSeqs}

\* listSiteSlesMetrics: the call raises, the data is no dict, or a dict with "enabled"
EnabledResponses ==
    {[kind |-> k, enabled |-> <<>>] : k \in {"error", "nondict"}}
    \cup {[kind |-> "dict", enabled |-> e] : e \in SeqsUpTo(MetricUniverse, MaxEnabled)}

DurationTokens == {"10m", "1h", "today", "1d", "1w", "99d"}
Times == {1000, 1700}
TenMinutes == 600

----------------------------------------------------------------------------
(* get_site_sle *)

\* app.py get_site_sle: duration not in valid_durations -> "1d"
RouteSiteSleDuration(raw) ==
    IF raw \in {"10m", "1h", "today", "1d", "1w"} THEN raw ELSE "1d"

\* mutant: duration_map.get(duration, duration), an unknown token passes through
SleApiDuration_PassThrough(d) == IF d = "today" THEN "1d" ELSE d

\* duration_map.get(duration, '1d')
SleApiDuration(d) ==
    CASE d = "1h" -> "1h"
      [] d = "today" -> "1d"
      [] d = "1d" -> "1d"
      [] d = "1w" -> "1w"
      [] OTHER -> "1d"

EmptyMap == <<>>

SleDataInit ==
    [wifi  |-> [metrics |-> EmptyMap, available |-> FALSE],
     wired |-> [metrics |-> EmptyMap, available |-> FALSE],
     wan   |-> [metrics |-> EmptyMap, available |-> FALSE]]

\* the body of the per-metric try block raises: the fetch itself, or
\* sle_info.get(...) on a null "sle"
SleTryRaises(resp) == resp.kind \in {"error", "badsle"}

\* mutant: "if total_sum >= 0", a series without samples is reported as 0
SleTryBody_ZeroWritten(sle, cat, metric, resp) ==
    IF resp.kind # "sle" THEN sle
    ELSE LET total_sum == SumNotNone(resp.total)
             degraded_sum == SumNotNone(resp.degraded)
             display_name == DisplayName(metric)
             metrics == sle[cat].metrics
             value == IF total_sum > 0 THEN SleValue(total_sum, degraded_sum) ELSE 0
         IN  [sle EXCEPT ![cat] =
                [available |-> TRUE,
                 metrics |-> IF display_name \in DOMAIN metrics
                             THEN metrics
                             ELSE metrics @@ (display_name :> value)]]

\* mutant: no "if display_name not in ..." test, the last write wins
SleTryBody_Overwrite(sle, cat, metric, resp) ==
    IF resp.kind # "sle" THEN sle
    ELSE LET total_sum == SumNotNone(resp.total)
             degraded_sum == SumNotNone(resp.degraded)
             display_name == DisplayName(metric)
             metrics == sle[cat].metrics
         IN  IF total_sum > 0
             THEN [sle EXCEPT ![cat] =
                     [available |-> TRUE,
                      metrics |-> (display_name :> SleValue(total_sum, degraded_sum)) @@ metrics]]
             ELSE sle

\* mutant: available is set as soon as the response carries "sle", before the
\* "if total_sum > 0" test
SleTryBody_AvailableEarly(sle, cat, metric, resp) ==
    IF resp.kind # "sle" THEN sle
    ELSE LET total_sum == SumNotNone(resp.total)
             degraded_sum == SumNotNone(resp.degraded)
             display_name == DisplayName(metric)
             metrics == sle[cat].metrics
         IN  IF total_sum > 0
             THEN [sle EXCEPT ![cat] =
                     [available |-> TRUE,
                      metrics |-> IF display_name \in DOMAIN metrics
                                  THEN metrics
                                  ELSE metrics @@ (display_name :> SleValue(total_sum, degraded_sum))]]
             ELSE [sle EXCEPT ![cat].available = TRUE]

\* the per-metric try block when nothing in it raises
SleTryBody(sle, cat, metric, resp) ==
    IF resp.kind # "sle" THEN sle
    ELSE LET total_sum == SumNotNone(resp.total)
             degraded_sum == SumNotNone(resp.degraded)
             display_name == DisplayName(metric)
             metrics == sle[cat].metrics
         IN  IF total_sum > 0
             THEN [sle EXCEPT ![cat] =
                     [available |-> TRUE,
                      metrics |-> IF display_name \in DOMAIN metrics
                                  THEN metrics
                                  ELSE metrics @@ (display_name :> SleValue(total_sum, degraded_sum))]]
             ELSE sle

\* mutant: the category is marked available before the fetch is known to succeed
SleIteration_MarksAvailable(sle, cat, metric, resp) ==
    IF SleTryRaises(resp) THEN [sle EXCEPT ![cat].available = TRUE]
    ELSE SleTryBody(sle, cat, metric, resp)

\* one iteration of the loop for a metric that has a category: try / except
SleIteration(sle, cat, metric, resp) ==
    IF SleTryRaises(resp) THEN sle ELSE SleTryBody(sle, cat, metric, resp)

\* the arguments of one getSiteSleSummaryTrend call
TrendCall(metric, useTs, st, en, dur) ==
    IF useTs
    THEN [api |-> "getSiteSleSummaryTrend", metric |-> metric, duration |-> None,
          start |-> Some(st), end |-> Some(en)]
    ELSE [api |-> "getSiteSleSummaryTrend", metric |-> metric, duration |-> Some(dur),
          start |-> None, end |-> None]

EnabledCall ==
    [api |-> "listSiteSlesMetrics", metric |-> None, duration |-> None,
     start |-> None, end |-> None]

\* mutant: no try/except around listSiteSlesMetrics, its exception leaves the method
EnabledFetch_Raises(resp) ==
    [raised |-> resp.kind = "error",
     enabled |-> IF resp.kind = "dict" THEN resp.enabled ELSE <<>>]

\* the try/except around listSiteSlesMetrics:
\* metrics_data.get("enabled", []) if isinstance(metrics_data, dict) else [],
\* and [] when the call raises; the exception never leaves the block
EnabledFetch(resp) ==
    [raised |-> FALSE,
     enabled |-> IF resp.kind = "dict" THEN resp.enabled ELSE <<>>]

\* history: what the upstream answered for one metric of the loop
SleOutcome(resp) ==
    IF SleTryRaises(resp) THEN [kind |-> "failed", score |-> None]
    ELSE IF resp.kind # "sle" THEN [kind |-> "nodata", score |-> None]
    ELSE IF SumNotNone(resp.total) > 0
         THEN [kind |-> "scored",
               score |-> Some(SleValue(SumNotNone(resp.total), SumNotNone(resp.degraded)))]
         ELSE [kind |-> "zero", score |-> None]

\* self._get_session() raises: the outer except logs and re-raises
SleSessionFails ==
    /\ pc = "idle"
    /\ pc' = "sle_raised"
    /\ UNCHANGED <<sleVars, scVars, detVars, ckVars, itVars, orgVars,
                   det_error, expVars, connVars>>

\* from the entry of the route or the method up to the start of the loop
SleStart ==
    /\ pc = "idle"
    /\ \E route \in BOOLEAN, raw \in DurationTokens, now \in Times, er \in EnabledResponses :
        LET d == IF route THEN RouteSiteSleDuration(raw) ELSE raw
            ts == d = "10m"
            ef == EnabledFetch(er)
        IN  /\ via_route' = route
            /\ req_duration' = raw
            /\ duration' = d
            /\ use_timestamps' = ts
            /\ end_time' = IF ts THEN now ELSE 0
            /\ start_time' = IF ts THEN now - TenMinutes ELSE 0
            /\ api_duration' = IF ts THEN "1d" ELSE SleApiDuration(d)
            /\ enabled_kind' = er.kind
            /\ enabled_metrics' = ef.enabled
            /\ pc' = IF ef.raised THEN "sle_raised" ELSE "sle_loop"
    /\ sle_data' = SleDataInit
    /\ ref_sle' = SleDataInit
    /\ calls' = <<EnabledCall>>
    /\ idx' = 1
    /\ outcomes' = <<>>
    /\ UNCHANGED <<scVars, detVars, ckVars, itVars, orgVars,
                   det_error, expVars, connVars>>

\* a metric without category: continue
SleSkipMetric ==
    /\ pc = "sle_loop"
    /\ idx <= Len(enabled_metrics)
    /\ CategoryOf(enabled_metrics[idx]) = None
    /\ idx' = idx + 1
    /\ outcomes' = Append(outcomes, [kind |-> "skipped", score |-> None])
    /\ UNCHANGED <<pc, duration, req_duration, via_route, use_timestamps, start_time,
                   end_time, api_duration, enabled_kind, enabled_metrics, sle_data,
                   ref_sle, calls, scVars, detVars, ckVars, itVars, orgVars,
                   det_error, expVars, connVars>>

\* a metric with a category: fetch its series and record its score
SleFetchMetric ==
    /\ pc = "sle_loop"
    /\ idx <= Len(enabled_metrics)
    /\ CategoryOf(enabled_metrics[idx]) # None
    /\ \E resp \in TrendResponses :
        LET metric == enabled_metrics[idx]
            cat == Val(CategoryOf(metric))
        IN  /\ calls' = Append(calls, TrendCall(metric, use_timestamps, start_time,
                                                end_time, api_duration))
            /\ sle_data' = SleIteration(sle_data, cat, metric, resp)
            /\ ref_sle' = IF SleTryRaises(resp) THEN ref_sle
                          ELSE SleTryBody(ref_sle, cat, metric, resp)
            /\ outcomes' = Append(outcomes, SleOutcome(resp))
    /\ idx' = idx + 1
    /\ UNCHANGED <<pc, duration, req_duration, via_route, use_timestamps, start_time,
                   end_time, api_duration, enabled_kind, enabled_metrics, scVars, detVars, ckVars, itVars, orgVars,
                   det_error, expVars, connVars>>

\* return sle_data
SleReturn ==
    /\ pc = "sle_loop"
    /\ idx > Len(enabled_metrics)
    /\ pc' = "sle_done"
    /\ UNCHANGED <<sleVars, scVars, detVars, ckVars, itVars, orgVars,
                   det_error, expVars, connVars>>

----------------------------------------------------------------------------
(* get_sle_details: upstream responses *)

ClfNames == {"c1", "c2"}
\* "degraded" arrays of a classifier: empty, all null, zero, and with a sum of 1 and 2
ClfDegradedSeqs == {<<>>, <<None>>, <<Some(0)>>, <<Some(1)>>, <<None, Some(2)>>}

\* an entry of the trend response's "classifiers" list: no dict at all, or a dict
\* with an optional "name" and with "samples" either null or carrying "degraded"
RawClfEntries ==
    {[kind |-> "nondict", name |-> None, samples |-> None]}
    \cup {[kind |-> "dict", name |-> None, samples |-> Some(<<Some(1)>>)]}
    \cup {[kind |-> "dict", name |-> Some(c), samples |-> sm] :
            c \in ClfNames, sm \in {None} \cup {Some(d) : d \in ClfDegradedSeqs}}

ImpactFields ==
    <<"num_aps", "total_aps", "num_gateways", "total_gateways",
      "num_switches", "total_switches", "num_users", "total_users">>

\* an "impact" object of the legacy summary: some fields present, one of them null
ApImpact == ("num_aps" :> Some(1)) @@ ("total_aps" :> Some(2)) @@ ("num_users" :> None)

\* an entry of the legacy summary's "classifiers" list; "impact" may be null
LegacyEntries ==
    {[kind |-> "nondict", name |-> None, has_impact |-> FALSE, impact |-> None]}
    \cup {[kind |-> "dict", name |-> None, has_impact |-> TRUE, impact |-> Some(ApImpact)]}
    \cup {[kind |-> "dict", name |-> Some("c1"), has_impact |-> FALSE, impact |-> None]}
    \cup {[kind |-> "dict", name |-> Some(c), has_impact |-> TRUE, impact |-> i] :
            c \in ClfNames, i \in {None, Some(ApImpact)}}

\* getSiteSleSummary: the call raises, the data is no dict, "classifiers" is null,
\* or "classifiers" is a list of entries
LegacyResponses ==
    {[kind |-> k, classifiers |-> <<>>] : k \in {"error", "nondict", "nullclassifiers"}}
    \cup {[kind |-> "dict", classifiers |-> l] : l \in SeqsUpTo(LegacyEntries, MaxLegacy)}

\* "total" and "degraded" arrays of the "sle" part of a get_sle_details trend response
DetSampleSeqs == {<<>>, <<None>>, <<Some(0)>>, <<None, Some(1)>>}

\* the overall "impact" object of a trend response, when it has one
OverallImpact == ("num_users" :> Some(4))

\* the part of a trend response read before its classifiers: how the call ended,
\* the "sle" samples and the optional overall "impact"
DetTrendHeads ==
    {[kind |-> k, total |-> <<>>, degraded |-> <<>>, impact |-> None] :
        k \in {"error", "nondict"}}
    \cup {[kind |-> k, total |-> <<>>, degraded |-> <<>>, impact |-> i] :
        k \in {"nosle", "badsle"}, i \in {None, Some(OverallImpact)}}
    \cup {[kind |-> "sle", total |-> t, degraded |-> d, impact |-> i] :
        t \in DetSampleSeqs, d \in DetSampleSeqs, i \in {None, Some(OverallImpact)}}

\* metric names the upstream may report as enabled to get_sle_details
DetMetricUniverse == { <<"coverage">>, <<"capacity", "-v2">>, <<"client-events">> }

DetEnabledResponses ==
    {[kind |-> k, enabled |-> <<>>] : k \in {"error", "nondict"}}
    \cup {[kind |-> "dict", enabled |-> e] : e \in SeqsUpTo(DetMetricUniverse, MaxEnabled)}

DetDurationTokens == {"1d", "99d"}
CategoryInputs == {"wifi", "wired", "wan", "foo"}

----------------------------------------------------------------------------
(* get_sle_details *)

\* mutant: only "m in enabled_metrics", a versioned enabled name does not count
CategoryMetrics_ExactOnly(cat, enabled) ==
    SelectSeq(metric_categories[cat], LAMBDA m : m \in Range(enabled))

\* [m for m in metric_categories[category]
\*    if m in enabled_metrics or any(em.startswith(m) for em in enabled_metrics)]
CategoryMetrics(cat, enabled) ==
    SelectSeq(metric_categories[cat],
              LAMBDA m : \/ m \in Range(enabled)
                         \/ \E em \in Range(enabled) : StartsWith(em, m))

\* the for/break loop: the first enabled name that starts with metric, else metric
ActualMetric(metric, enabled) ==
    LET hits == {i \in DOMAIN enabled : StartsWith(enabled[i], metric)}
    IN  IF hits = {} THEN metric
        ELSE enabled[CHOOSE i \in hits : \A j \in hits : i <= j]

MetricDataInit(metric) ==
    [name |-> metric, sle_value |-> None, classifiers |-> <<>>, impact |-> EmptyMap]

\* if total > 0: round(((total - degraded) / total) * 100, 1), else sle_value stays None
DetailSleValue(total, degraded) ==
    IF SumNotNone(total) > 0
    THEN Some(SleValue(SumNotNone(total), SumNotNone(degraded)))
    ELSE None

\* the inner try/except around getSiteSleSummary: classifier name -> impact,
\* later entries of one name replacing earlier ones; empty on any failure
RECURSIVE ImpactMapOf(_, _)
ImpactMapOf(entries, acc) ==
    IF entries = <<>> THEN acc
    ELSE LET clf == Head(entries)
         IN  IF clf.kind = "dict" /\ clf.name # None /\ clf.has_impact
             THEN ImpactMapOf(Tail(entries), (Val(clf.name) :> clf.impact) @@ acc)
             ELSE ImpactMapOf(Tail(entries), acc)

ClassifierImpactMap(resp) ==
    IF resp.kind = "dict" THEN ImpactMapOf(resp.classifiers, EmptyMap) ELSE EmptyMap

\* clf.get("name", "unknown")
ClfName(clf) == IF clf.name = None THEN "unknown" ELSE Val(clf.name)

\* sum(x for x in clf_samples.get("degraded", []) if x is not None)
ClfDegradedSum(clf) == SumNotNone(Val(clf.samples))

\* clf.get("samples", {}) is null: clf_samples.get(...) raises
ClfSamplesRaise(clf) == clf.kind = "dict" /\ clf.samples = None

\* first pass: total_classifier_degraded
RECURSIVE TotalClassifierDegraded(_)
TotalClassifierDegraded(raw) ==
    IF raw = <<>> THEN 0
    ELSE (IF Head(raw).kind = "dict" THEN ClfDegradedSum(Head(raw)) ELSE 0)
         + TotalClassifierDegraded(Tail(raw))

\* mutant: the percentage is cut to one decimal instead of rounded
ClfPercentage_Truncates(clf_degraded_sum, total_classifier_degraded) ==
    IF total_classifier_degraded > 0
    THEN (1000 * clf_degraded_sum) \div total_classifier_degraded
    ELSE 0

\* round((clf_degraded_sum / total_classifier_degraded) * 100, 1), in tenths; 0 when
\* the total is 0
ClfPercentage(clf_degraded_sum, total_classifier_degraded) ==
    IF total_classifier_degraded > 0
    THEN RoundHalfEven(1000 * clf_degraded_sum, total_classifier_degraded)
    ELSE 0

\* mutant: classifier_impact_map[clf_name], which raises for a name not in the map
ClfImpactOf_KeyError(impact_map, clf_name) ==
    IF clf_name \in DOMAIN impact_map THEN impact_map[clf_name] ELSE None

\* classifier_impact_map.get(clf_name, {})
ClfImpactOf(impact_map, clf_name) ==
    IF clf_name \in DOMAIN impact_map THEN impact_map[clf_name] ELSE Some(EmptyMap)

\* clf_impact.get(f, 0) or 0
ImpactField(clf_impact, f) ==
    IF f \in DOMAIN clf_impact /\ clf_impact[f] # None THEN Val(clf_impact[f]) ELSE 0

ClassifierInfo(clf, impact_map, total_classifier_degraded) ==
    [name |-> ClfName(clf),
     degraded_sum |-> ClfDegradedSum(clf),
     percentage |-> ClfPercentage(ClfDegradedSum(clf), total_classifier_degraded),
     impact |-> [f \in Range(ImpactFields) |->
                    ImpactField(Val(ClfImpactOf(impact_map, ClfName(clf))), f)],
     samples |-> Val(clf.samples)]

\* mutant: no "if clf_degraded_sum > 0" before the append
RECURSIVE ProcessClassifiers_KeepsAll(_, _, _, _)
ProcessClassifiers_KeepsAll(raw, impact_map, total_classifier_degraded, acc) ==
    IF raw = <<>> THEN [raised |-> FALSE, classifiers |-> acc]
    ELSE LET clf == Head(raw)
         IN  IF clf.kind # "dict"
             THEN ProcessClassifiers_KeepsAll(Tail(raw), impact_map,
                                              total_classifier_degraded, acc)
             ELSE IF ClfImpactOf(impact_map, ClfName(clf)) = None
             THEN [raised |-> TRUE, classifiers |-> acc]
             ELSE ProcessClassifiers_KeepsAll(
                     Tail(raw), impact_map, total_classifier_degraded,
                     Append(acc, ClassifierInfo(clf, impact_map, total_classifier_degraded)))

\* second pass over raw_classifiers: the list appended so far and whether an entry
\* raised (its impact in the map is null, so clf_impact.get(...) raises)
RECURSIVE ProcessClassifiers(_, _, _, _)
ProcessClassifiers(raw, impact_map, total_classifier_degraded, acc) ==
    IF raw = <<>> THEN [raised |-> FALSE, classifiers |-> acc]
    ELSE LET clf == Head(raw)
         IN  IF clf.kind # "dict"
             THEN ProcessClassifiers(Tail(raw), impact_map, total_classifier_degraded, acc)
             ELSE IF ClfImpactOf(impact_map, ClfName(clf)) = None
             THEN [raised |-> TRUE, classifiers |-> acc]
             ELSE ProcessClassifiers(
                     Tail(raw), impact_map, total_classifier_degraded,
                     IF ClfDegradedSum(clf) > 0
                     THEN Append(acc, ClassifierInfo(clf, impact_map, total_classifier_degraded))
                     ELSE acc)

\* list.sort(key=percentage, reverse=True): stable, highest percentage first
RECURSIVE InsertByPercentage(_, _)
InsertByPercentage(sorted, c) ==
    IF sorted = <<>> THEN <<c>>
    ELSE IF Head(sorted).percentage >= c.percentage
         THEN <<Head(sorted)>> \o InsertByPercentage(Tail(sorted), c)
         ELSE <<c>> \o sorted

RECURSIVE SortByPercentage(_)
SortByPercentage(cs) ==
    IF cs = <<>> THEN <<>>
    ELSE InsertByPercentage(SortByPercentage(SubSeq(cs, 1, Len(cs) - 1)), cs[Len(cs)])

\* from "if isinstance(summary_data, dict)" on, for a trend head that did not raise:
\* sle_value and impact
MetricHead(md, head) ==
    [md EXCEPT !.sle_value = IF head.kind = "sle"
                             THEN DetailSleValue(head.total, head.degraded) ELSE None,
               !.impact = IF head.impact = None THEN EmptyMap ELSE Val(head.impact)]

\* the classifier part of the try block: both passes and the sort; an exception in
\* either pass leaves what was appended so far, unsorted
MetricClassifiers(md, raw, impact_map) ==
    IF \E i \in DOMAIN raw : ClfSamplesRaise(raw[i])
    THEN md
    ELSE LET p == ProcessClassifiers(raw, impact_map, TotalClassifierDegraded(raw), <<>>)
         IN  IF p.raised
             THEN [md EXCEPT !.classifiers = p.classifiers]
             ELSE [md EXCEPT !.classifiers = SortByPercentage(p.classifiers)]

\* result["metrics"][metric] = metric_data
StoreMetric(res, metric, md) == (metric :> md) @@ res

\* mutant: the except block skips the metric ("continue")
DetFailed_Drops(res, metric) == res

\* the except block of one iteration: the exception is logged and metric_data is
\* stored as it was initialised
DetFailed(res, metric) == StoreMetric(res, metric, MetricDataInit(metric))

DetCall(api, metric, dur) ==
    [api |-> api, metric |-> metric, duration |-> Some(dur), start |-> None, end |-> None]

\* the known categories
ValidCategory(cat) == cat \in DOMAIN metric_categories

\* ValueError(f"Invalid category: {category}"); the text and the values it names
DetCategoryError(cat) ==
    [text |-> "Invalid category", value |-> Some(cat), allowed |-> None]

\* category not in metric_categories: ValueError, re-raised by the outer except,
\* before any upstream call
DetInvalidCategory ==
    /\ pc = "idle"
    /\ \E raw \in DetDurationTokens, cat \in CategoryInputs :
        /\ ~ValidCategory(cat)
        /\ via_route' = TRUE
        /\ req_duration' = raw
        /\ duration' = raw
        /\ category' = cat
        /\ det_error' = Some(DetCategoryError(cat))
    /\ pc' = "det_raised"
    /\ UNCHANGED <<use_timestamps, start_time, end_time, api_duration, enabled_kind,
                   enabled_metrics, idx, sle_data, ref_sle, outcomes, calls,
                   category_metrics, result, metric_data, classifier_impact_map,
                   det_outcomes, clf_zero_seen, clf_budget, scVars, ckVars, itVars, orgVars,
                   expVars, connVars>>

\* from the entry of the route (app.py get_sle_details, which hands the caller's
\* duration to the method as it is) up to the start of the loop
DetStart ==
    /\ pc = "idle"
    /\ \E raw \in DetDurationTokens, cat \in CategoryInputs, er \in DetEnabledResponses :
        LET ef == EnabledFetch(er)
        IN  /\ ValidCategory(cat)
            /\ via_route' = TRUE
            /\ req_duration' = raw
            /\ duration' = raw
            /\ category' = cat
            /\ enabled_kind' = er.kind
            /\ enabled_metrics' = ef.enabled
            /\ category_metrics' = CategoryMetrics(cat, ef.enabled)
            /\ pc' = IF ef.raised THEN "det_raised" ELSE "det_loop"
    /\ result' = EmptyMap
    /\ metric_data' = None
    /\ classifier_impact_map' = EmptyMap
    /\ det_outcomes' = <<>>
    /\ clf_zero_seen' = FALSE
    /\ clf_budget' = MaxClf
    /\ calls' = <<EnabledCall>>
    /\ idx' = 1
    /\ UNCHANGED <<use_timestamps, start_time, end_time, api_duration, sle_data,
                   ref_sle, outcomes, scVars, ckVars, itVars, orgVars,
                   det_error, expVars, connVars>>

\* one iteration up to the classifiers: the trend fetch, the legacy fetch and
\* sle_value / impact. When the fetch raises, the data is no dict or "sle" is null,
\* the iteration ends here with metric_data as initialised; it also ends here when
\* the response carries no classifiers (clf_budget = 0), whatever the legacy fetch
\* answered.
DetTrend ==
    /\ pc = "det_loop"
    /\ idx <= Len(category_metrics)
    /\ \E head \in DetTrendHeads :
        LET metric == category_metrics[idx]
            actual_metric == ActualMetric(metric, enabled_metrics)
            trend == DetCall("getSiteSleSummaryTrend", actual_metric, duration)
            legacy == DetCall("getSiteSleSummary", actual_metric, duration)
        IN  /\ det_outcomes' = Append(det_outcomes, head.kind)
            /\ IF head.kind = "error"
               THEN /\ calls' = Append(calls, trend)
                    /\ result' = DetFailed(result, metric)
                    /\ metric_data' = None
                    /\ idx' = idx + 1
                    /\ pc' = "det_loop"
               ELSE IF head.kind \in {"nondict", "badsle"}
               THEN /\ calls' = calls \o <<trend, legacy>>
                    /\ result' = DetFailed(result, metric)
                    /\ metric_data' = None
                    /\ idx' = idx + 1
                    /\ pc' = "det_loop"
               ELSE IF clf_budget = 0
               THEN /\ calls' = calls \o <<trend, legacy>>
                    /\ result' = StoreMetric(result, metric,
                                     MetricClassifiers(MetricHead(MetricDataInit(metric), head),
                                                       <<>>, EmptyMap))
                    /\ metric_data' = None
                    /\ idx' = idx + 1
                    /\ pc' = "det_loop"
               ELSE /\ calls' = calls \o <<trend, legacy>>
                    /\ metric_data' = Some(MetricHead(MetricDataInit(metric), head))
                    /\ pc' = "det_impact"
                    /\ UNCHANGED <<result, idx>>
    /\ UNCHANGED <<duration, req_duration, via_route, use_timestamps, start_time,
                   end_time, api_duration, enabled_kind, enabled_metrics, sle_data,
                   ref_sle, outcomes, category, category_metrics,
                   classifier_impact_map, clf_zero_seen, clf_budget, scVars, ckVars, itVars, orgVars,
                   det_error, expVars, connVars>>

\* the answer of the legacy summary fetch: classifier_impact_map
DetImpact ==
    /\ pc = "det_impact"
    /\ \E resp \in LegacyResponses :
        classifier_impact_map' = ClassifierImpactMap(resp)
    /\ pc' = "det_clf"
    /\ UNCHANGED <<duration, req_duration, via_route, use_timestamps, start_time,
                   end_time, api_duration, enabled_kind, enabled_metrics, idx, sle_data,
                   ref_sle, outcomes, calls, category, category_metrics, result,
                   metric_data, det_outcomes, clf_zero_seen, clf_budget, scVars, ckVars, itVars, orgVars,
                   det_error, expVars, connVars>>

\* the classifiers of the trend response, and the end of the iteration
DetClassifiers ==
    /\ pc = "det_clf"
    /\ \E raw \in SeqsUpTo(RawClfEntries, clf_budget) :
        /\ result' = StoreMetric(result, category_metrics[idx],
                                 MetricClassifiers(Val(metric_data), raw,
                                                   classifier_impact_map))
        /\ clf_budget' = IF raw = <<>> THEN clf_budget ELSE 0
        /\ clf_zero_seen' =
              (clf_zero_seen \/ \E i \in DOMAIN raw :
                  /\ raw[i].kind = "dict" /\ raw[i].samples # None
                  /\ ClfDegradedSum(raw[i]) = 0)
    /\ metric_data' = None
    /\ classifier_impact_map' = EmptyMap
    /\ idx' = idx + 1
    /\ pc' = "det_loop"
    /\ UNCHANGED <<duration, req_duration, via_route, use_timestamps, start_time,
                   end_time, api_duration, enabled_kind, enabled_metrics, sle_data,
                   ref_sle, outcomes, calls, category, category_metrics,
                   det_outcomes, scVars, ckVars, itVars, orgVars,
                   det_error, expVars, connVars>>

\* return result
DetReturn ==
    /\ pc = "det_loop"
    /\ idx > Len(category_metrics)
    /\ pc' = "det_done"
    /\ UNCHANGED <<sleVars, detVars, scVars, ckVars, itVars, orgVars,
                   det_error, expVars, connVars>>

----------------------------------------------------------------------------
(* Score check: the score both methods report for one sample series *)

\* get_site_sle: the value written for a series, None when nothing is written
SiteSleScore(total, degraded) ==
    LET s == SleTryBody(SleDataInit, "wifi", <<"coverage">>,
                        [kind |-> "sle", total |-> total, degraded |-> degraded])
    IN  IF <<"coverage">> \in DOMAIN s.wifi.metrics
        THEN Some(s.wifi.metrics[<<"coverage">>]) ELSE None

ScoreVals == {None} \cup {Some(v) : v \in 0..MaxVal}
Buckets == ScoreVals \X ScoreVals
BucketSeqs == SeqsUpTo(Buckets, MaxBuckets)

ScoreCompute ==
    /\ pc = "score"
    /\ sc_site' = SiteSleScore(sc_total, sc_degraded)
    /\ sc_detail' = DetailSleValue(sc_total, sc_degraded)
    /\ pc' = "score_done"
    /\ UNCHANGED <<sleVars, detVars, sc_total, sc_degraded, ckVars, itVars, orgVars,
                   det_error, expVars, connVars>>

----------------------------------------------------------------------------
(* Classifier check: the MetricDetail get_sle_details builds from one trend
   response and one legacy summary response *)

\* entries of the trend response's "classifiers" list
CkClfEntries ==
    { [kind |-> "nondict", name |-> None, samples |-> None],
      [kind |-> "dict", name |-> None, samples |-> Some(<<Some(1)>>)],
      [kind |-> "dict", name |-> Some("c1"), samples |-> Some(<<Some(1)>>)],
      [kind |-> "dict", name |-> Some("c1"), samples |-> Some(<<Some(0)>>)],
      [kind |-> "dict", name |-> Some("c2"), samples |-> Some(<<None, Some(2)>>)],
      [kind |-> "dict", name |-> Some("c2"), samples |-> None],
      [kind |-> "dict", name |-> Some("c3"), samples |-> Some(<<Some(3)>>)] }

\* entries of the legacy summary's "classifiers" list
CkLegacyEntries ==
    LegacyEntries \cup
    {[kind |-> "dict", name |-> Some("c3"), has_impact |-> TRUE, impact |-> None]}

CkLegacyResponses ==
    {[kind |-> k, classifiers |-> <<>>] : k \in {"error", "nondict", "nullclassifiers"}}
    \cup {[kind |-> "dict", classifiers |-> l] : l \in SeqsUpTo(CkLegacyEntries, MaxLegacy)}

\* trend responses up to their classifiers: one with a score, one without "sle"
CkHeads ==
    { [kind |-> "sle", total |-> <<None, Some(1)>>, degraded |-> <<Some(0)>>,
       impact |-> Some(OverallImpact)],
      [kind |-> "nosle", total |-> <<>>, degraded |-> <<>>, impact |-> None] }

\* the legacy summary answers an impact object for every classifier name
CkFullImpactMap == [n \in {"c1", "c2", "c3", "unknown"} |-> Some(ApImpact)]

\* the answer of the legacy summary fetch
CkLegacy ==
    /\ pc = "clf"
    /\ \E resp \in CkLegacyResponses :
        /\ ck_legacy_kind' = resp.kind
        /\ ck_impact_map' = ClassifierImpactMap(resp)
    /\ pc' = "clf_legacy"
    /\ UNCHANGED <<sleVars, detVars, scVars, ck_head, raw_classifiers, ck_metric_data,
                   ck_ref_data, itVars, orgVars,
                   det_error, expVars, connVars>>

\* the rest of the try block of the iteration, and the reference run
CkCompute ==
    /\ pc = "clf_legacy"
    /\ ck_metric_data' =
          Some(MetricClassifiers(MetricHead(MetricDataInit(<<"coverage">>), ck_head),
                                 raw_classifiers, ck_impact_map))
    /\ ck_ref_data' =
          Some(MetricClassifiers(MetricHead(MetricDataInit(<<"coverage">>), ck_head),
                                 raw_classifiers, CkFullImpactMap))
    /\ pc' = "clf_done"
    /\ UNCHANGED <<sleVars, detVars, scVars, ck_head, raw_classifiers, ck_legacy_kind,
                   ck_impact_map, itVars, orgVars,
                   det_error, expVars, connVars>>

----------------------------------------------------------------------------
(* get_sle_impacted_items *)

\* mutant: the route lets every item_type through
valid_types_Unchecked ==
    {"gateways", "interfaces", "applications", "clients", "wireless_clients", "foo"}

\* valid_types of the route (app.py) and the keys of api_map (mist_connection.py)
valid_types == {"gateways", "interfaces", "applications", "clients", "wireless_clients"}

\* api_map: item_type -> (API function, response key)
api_map ==
    ("gateways" :> <<"listSiteSleImpactedGateways", "gateways">>)
    @@ ("interfaces" :> <<"listSiteSleImpactedInterfaces", "interfaces">>)
    @@ ("applications" :> <<"listSiteSleImpactedApplications", "apps">>)
    @@ ("clients" :> <<"listSiteSleImpactedWiredClients", "clients">>)
    @@ ("wireless_clients" :> <<"listSiteSleImpactedWirelessClients", "clients">>)

ItemTypeInputs == {"gateways", "applications", "wireless_clients", "foo"}
ClassifierInputs == {None, Some(""), Some("c1")}

\* items of an upstream list: with counts, without the two count fields, and with a
\* null "degraded"
ItemA == ("name" :> "a") @@ ("degraded" :> Some(1)) @@ ("total" :> Some(3))
ItemB == ("name" :> "b") @@ ("degraded" :> Some(2)) @@ ("total" :> Some(2))
ItemM == ("name" :> "m") @@ ("mac" :> "5c5b35")
ItemN == ("name" :> "n") @@ ("degraded" :> None) @@ ("total" :> Some(1))
ItemInputs == {ItemA, ItemB, ItemM, ItemN}

\* item.get(f, 0)
ItemGet(item, f) == IF f \in DOMAIN item THEN item[f] ELSE Some(0)

\* a null count: sum(...) or "total > 0" raises TypeError
ItemsRaise(raw_items) ==
    \E i \in DOMAIN raw_items :
        ItemGet(raw_items[i], "degraded") = None \/ ItemGet(raw_items[i], "total") = None

\* sum(item.get("degraded", 0) for item in raw_items)
RECURSIVE TotalDegradedAll(_)
TotalDegradedAll(raw_items) ==
    IF raw_items = <<>> THEN 0
    ELSE Val(ItemGet(Head(raw_items), "degraded")) + TotalDegradedAll(Tail(raw_items))

\* round((degraded / total) * 100, 1) if total > 0 else 0, in tenths
FailureRate(degraded, total) ==
    IF total > 0 THEN RoundHalfEven(1000 * degraded, total) ELSE 0

\* mutant: the share is taken of the item's own total
ItemOverallImpact_OfOwnTotal(degraded, total_degraded_all, total) ==
    FailureRate(degraded, total)

\* round((degraded / total_degraded_all) * 100, 1) if total_degraded_all > 0 else 0
ItemOverallImpact(degraded, total_degraded_all, total) ==
    IF total_degraded_all > 0 THEN RoundHalfEven(1000 * degraded, total_degraded_all) ELSE 0

\* {**item, "failure_rate": failure_rate, "overall_impact": overall_impact}
ProcessedItem(item, total_degraded_all) ==
    LET degraded == Val(ItemGet(item, "degraded"))
        total == Val(ItemGet(item, "total"))
    IN  ("failure_rate" :> FailureRate(degraded, total))
        @@ ("overall_impact" :> ItemOverallImpact(degraded, total_degraded_all, total))
        @@ item

\* items.sort(key=overall_impact, reverse=True): stable, highest impact first
RECURSIVE InsertByImpact(_, _)
InsertByImpact(sorted, item) ==
    IF sorted = <<>> THEN <<item>>
    ELSE IF Head(sorted)["overall_impact"] >= item["overall_impact"]
         THEN <<Head(sorted)>> \o InsertByImpact(Tail(sorted), item)
         ELSE <<item>> \o sorted

\* mutant: no sort, the items stay in upstream order
SortByImpact_Unsorted(items) == items

RECURSIVE SortByImpact(_)
SortByImpact(items) ==
    IF items = <<>> THEN <<>>
    ELSE InsertByImpact(SortByImpact(SubSeq(items, 1, Len(items) - 1)), items[Len(items)])

\* the error a request answers: what it says, the value and the allowed set it names
ItError(text, value, allowed) == [text |-> text, value |-> value, allowed |-> allowed]

\* {"total_count": 0, "items": [], "error": ...}
ItErrorResult(status, err) ==
    [status |-> status, total_count |-> Some(0), items |-> <<>>, meta |-> None,
     error |-> Some(err)]

\* the except block: {"total_count": 0, "items": [], "error": str(error)}
ItExceptionResult(status) == ItErrorResult(status, ItError("exception", None, None))

\* return {"total_count": 0, "items": [], "error": f"Invalid item_type: {item_type}"}
ItInvalidResult(status, type) ==
    ItErrorResult(status, ItError("Invalid item_type", Some(type), None))

\* the route's 400: f"Invalid item_type '{item_type}'. Must be one of: {valid_types}"
ItRouteInvalid(type) ==
    [status |-> Some(400), total_count |-> None, items |-> <<>>, meta |-> None,
     error |-> Some(ItError("Invalid item_type", Some(type), Some(valid_types)))]

\* from "data = response.data" to the return, for an upstream call that answered
ItemsResult(status, data, response_key, metric, classifier) ==
    IF data.kind # "dict"
    THEN [status |-> status, total_count |-> Some(0), items |-> <<>>, meta |-> None,
          error |-> None]
    ELSE IF data.key = Some(response_key) /\ data.items = None
    THEN ItExceptionResult(status)
    ELSE LET raw_items == IF data.key = Some(response_key) THEN Val(data.items) ELSE <<>>
         IN  IF ItemsRaise(raw_items) THEN ItExceptionResult(status)
             ELSE [status |-> status,
                   total_count |-> IF data.has_count THEN data.total_count
                                   ELSE Some(Len(raw_items)),
                   items |-> SortByImpact([i \in DOMAIN raw_items |->
                                 ProcessedItem(raw_items[i], TotalDegradedAll(raw_items))]),
                   meta |-> Some([metric |-> metric,
                                  classifier |-> IF classifier = None THEN ""
                                                 ELSE Val(classifier)]),
                   error |-> None]

\* upstream answers of a request: the call raises, no dict, a dict without the
\* response key or with a null list, and dicts with a list
ItDataInputs ==
    {[kind |-> k, key |-> None, items |-> None, has_count |-> FALSE, total_count |-> None] :
        k \in {"error", "nondict"}}
    \cup {[kind |-> "dict", key |-> None, items |-> None, has_count |-> TRUE,
           total_count |-> Some(0)]}
    \cup {[kind |-> "dict", key |-> Some(k), items |-> l, has_count |-> FALSE,
           total_count |-> None] :
            k \in {"gateways", "apps", "clients"},
            l \in {None, Some(<<ItemA>>), Some(<<ItemB, ItemN>>)}}
    \cup {[kind |-> "dict", key |-> Some(k), items |-> Some(<<ItemA, ItemB>>),
           has_count |-> TRUE, total_count |-> Some(12)] :
            k \in {"gateways", "apps", "clients"}}

ItCall(type, metric, dur, classifier) ==
    [api |-> api_map[type][1], metric |-> metric, duration |-> dur,
     classifier |-> IF classifier = None \/ classifier = Some("") THEN None ELSE classifier]

\* the route answers 400 for an item_type outside valid_types, before it asks for
\* the connection
ItRouteRejects ==
    /\ pc = "idle"
    /\ \E type \in ItemTypeInputs :
        /\ type \notin valid_types
        /\ item_type' = type
        /\ it_result' = Some(ItRouteInvalid(type))
    /\ it_via_route' = TRUE
    /\ it_classifier' = None
    /\ it_calls' = <<>>
    /\ it_data' = None
    /\ pc' = "it_done"
    /\ UNCHANGED <<sleVars, detVars, scVars, ckVars, orgVars,
                   det_error, expVars, connVars>>

\* the method up to the upstream call, entered through the route (with a valid
\* item_type) or called directly
ItStart ==
    /\ pc = "idle"
    /\ \E via \in BOOLEAN, type \in ItemTypeInputs, classifier \in ClassifierInputs,
          dur \in DetDurationTokens, session_ok \in BOOLEAN :
        LET status == IF via THEN Some(200) ELSE None
        IN  /\ via => type \in valid_types
            /\ it_via_route' = via
            /\ item_type' = type
            /\ it_classifier' = classifier
            /\ IF ~session_ok
               THEN /\ it_result' = Some(ItExceptionResult(status))
                    /\ it_calls' = <<>>
                    /\ pc' = "it_done"
               ELSE IF type \notin DOMAIN api_map
               THEN /\ it_result' = Some(ItInvalidResult(status, type))
                    /\ it_calls' = <<>>
                    /\ pc' = "it_done"
               ELSE /\ it_result' = None
                    /\ it_calls' = <<ItCall(type, "gateway-health", dur, classifier)>>
                    /\ pc' = "it_call"
    /\ it_data' = None
    /\ UNCHANGED <<sleVars, detVars, scVars, ckVars, orgVars,
                   det_error, expVars, connVars>>

\* the upstream answers, the method computes its result
ItAnswer ==
    /\ pc = "it_call"
    /\ \E data \in ItDataInputs :
        LET status == IF it_via_route THEN Some(200) ELSE None
        IN  /\ it_data' = Some(data)
            /\ it_result' =
                  Some(IF data.kind = "error" THEN ItExceptionResult(status)
                       ELSE ItemsResult(status, data, api_map[item_type][2],
                                        "gateway-health", it_classifier))
    /\ pc' = "it_done"
    /\ UNCHANGED <<sleVars, detVars, scVars, ckVars, item_type, it_classifier,
                   it_via_route, it_calls, orgVars,
                   det_error, expVars, connVars>>

\* ranking check: the result the method computes for one upstream list
RankDataInputs ==
    {[kind |-> "dict", key |-> Some("gateways"), items |-> Some(l), has_count |-> c,
      total_count |-> IF c THEN Some(12) ELSE None] :
        l \in SeqsUpTo(ItemInputs, MaxItems), c \in BOOLEAN}

RankCompute ==
    /\ pc = "rank"
    /\ it_result' = Some(ItemsResult(None, Val(it_data), api_map[item_type][2],
                                     "gateway-health", it_classifier))
    /\ pc' = "rank_done"
    /\ UNCHANGED <<sleVars, detVars, scVars, ckVars, item_type, it_classifier,
                   it_via_route, it_calls, it_data, orgVars,
                   det_error, expVars, connVars>>

----------------------------------------------------------------------------
(* Org-wide ranker: get_org_sle_insights and get_org_worst_sites_by_metric *)

\* listOrgSites(session, org_id, limit=1000, page=page)
PageLimit == 1000
\* int(time.time()) at the ranking call
OrgNow == 2000000

OrgEntries == {"insights", "by_metric"}
OrgSleTypes == {"wifi", "wired", "wan"}
OrgArgInputs(entry) ==
    IF entry = "insights" THEN OrgSleTypes \cup {"foo"} ELSE {"coverage"}
OrgDurationTokens == {"1h", "1d", "2w", "99d"}

\* how self.org_id gets its value: configured in the environment, or left to
\* test_connection, which fails, finds an organization, or finds a first privilege
\* without "org_id"
OrgIdSources == {"configured", "detect_fails", "detected", "detected_without_id"}

\* sites of the upstream list: id as a key (<<>> stands for ""), name present,
\* null or absent
Site(id, has_name, name) == [id |-> id, has_name |-> has_name, name |-> name]
SiteHq == Site(<<1>>, TRUE, Some("hq"))
SiteLab == Site(<<1>>, TRUE, Some("lab"))
SiteNullName == Site(<<2>>, TRUE, None)
SiteBare == Site(<<>>, FALSE, None)
SmallOrgs == { <<>>, <<SiteHq>>, <<SiteHq, SiteLab>>, <<SiteNullName, SiteBare>> }

\* an organization of n sites with ids 1..n
BulkOrg(n) == [i \in 1..n |-> Site(<<i>>, TRUE, Some("site"))]
BulkOrgs == {BulkOrg(n) : n \in {0, 1, 999, 1000, 1001, 1999, 2000, 2001}}

\* the page the upstream serves for listOrgSites(limit=1000, page=p)
OrgPage(sites, p) ==
    SubSeq(sites, (p - 1) * PageLimit + 1,
           IF p * PageLimit < Len(sites) THEN p * PageLimit ELSE Len(sites))

\* site.get("name", "Unknown Site")
SiteName(site) == IF site.has_name THEN site.name ELSE Some("Unknown Site")

\* for site in sites_data: site_name_map[site.get("id", "")] = site name; a later
\* entry of an id replaces an earlier one
RECURSIVE PageMap(_, _, _)
PageMap(sites_data, lo, hi) ==
    IF lo > hi THEN EmptyMap
    ELSE IF lo = hi THEN (sites_data[lo].id :> SiteName(sites_data[lo]))
    ELSE LET mid == (lo + hi) \div 2
         IN  PageMap(sites_data, mid + 1, hi) @@ PageMap(sites_data, lo, mid)

\* mutant: the loop goes on until a page is empty
LastPage_OnlyEmpty(sites_data) == FALSE

\* if len(sites_data) < 1000: break
LastPage(sites_data) == Len(sites_data) < PageLimit

\* duration_seconds of each entry point, and duration_seconds.get(duration, 86400)
duration_seconds(entry) ==
    IF entry = "insights"
    THEN ("1d" :> 86400) @@ ("7d" :> 604800) @@ ("2w" :> 1209600)
    ELSE ("1h" :> 3600) @@ ("3h" :> 10800) @@ ("6h" :> 21600) @@ ("12h" :> 43200)
         @@ ("1d" :> 86400) @@ ("7d" :> 604800)

DurationSeconds(entry, dur) ==
    IF dur \in DOMAIN duration_seconds(entry) THEN duration_seconds(entry)[dur] ELSE 86400

\* sle_metric_map.get(sle_type, "ap-availability")
sle_metric_map ==
    ("wifi" :> "ap-availability") @@ ("wired" :> "switch-stc") @@ ("wan" :> "gateway-health")

RankMetric(entry, arg) ==
    IF entry = "by_metric" THEN arg
    ELSE IF arg \in DOMAIN sle_metric_map THEN sle_metric_map[arg] ELSE "ap-availability"

\* rows of a ranking response; a row that is no dict has no fields
Row(fields) == [kind |-> "dict", fields |-> fields]
RowKnown == Row(("site_id" :> <<1>>) @@ ("coverage" :> 90))
RowUnknown == Row(("site_id" :> <<9>>) @@ ("coverage" :> 50))
RowNoId == Row(("num_aps" :> 3))
RowNamed == Row(("site_id" :> <<1>>) @@ ("site_name" :> Some("upstream name")))
RowNoDict == [kind |-> "nondict", fields |-> EmptyMap]
RowInputs == {RowKnown, RowUnknown, RowNoId, RowNamed, RowNoDict}

\* answers to session.mist_get(uri, query): the call raises, the response is
\* falsy, its status is not 200, or it is 200 with data that is a bare list, an
\* object with "results", an object without "results", null, or it has no data
RankResponses ==
    {[kind |-> k, shape |-> "", rows |-> <<>>] : k \in {"raises", "none", "status"}}
    \cup {[kind |-> "ok", shape |-> sh, rows |-> <<>>] :
            sh \in {"noresults", "null", "nodata"}}
    \cup {[kind |-> "ok", shape |-> sh, rows |-> r] :
            sh \in {"list", "results"}, r \in SeqsUpTo(RowInputs, MaxRows)}

\* "results" of each entry point: the rows to walk, or an exception when they
\* cannot be walked.
\*   insights:  data.get("results", []) if isinstance(data, dict) else data
\*   by_metric: data if list, data.get("results", []) if dict, else []
RankResults(entry, resp) ==
    IF resp.shape \in {"list", "results"}
    THEN [raised |-> \E i \in DOMAIN resp.rows : resp.rows[i].kind # "dict",
          results |-> resp.rows]
    ELSE IF resp.shape = "null" /\ entry = "insights"
    THEN [raised |-> TRUE, results |-> <<>>]
    ELSE [raised |-> FALSE, results |-> <<>>]

\* mutant: site_name_map[site_id], nothing for an id that is not in the lookup
ResolvedName_NoDefault(lookup, site_id) ==
    IF site_id \in DOMAIN lookup THEN lookup[site_id] ELSE None

\* site_name_map.get(site_id, "Unknown Site")
ResolvedName(lookup, site_id) ==
    IF site_id \in DOMAIN lookup THEN lookup[site_id] ELSE Some("Unknown Site")

\* site_entry: site_id and site_name, then every key of the row but site_id
SiteEntry(row, lookup) ==
    LET site_id == IF "site_id" \in DOMAIN row.fields THEN row.fields["site_id"] ELSE <<>>
    IN  [k \in {"site_id", "site_name"} \cup DOMAIN row.fields |->
            IF k = "site_id" THEN site_id
            ELSE IF k \in DOMAIN row.fields THEN row.fields[k]
            ELSE ResolvedName(lookup, site_id)]

\* mutant: the list is returned as the upstream sent it
Truncate_Nothing(sites_list, limit) == sites_list

\* sites_list[:limit], limit >= 0
Truncate(sites_list, limit) ==
    SubSeq(sites_list, 1, IF limit < Len(sites_list) THEN limit ELSE Len(sites_list))

OrgFailure(dur, text) ==
    [success |-> FALSE, duration |-> dur, sites |-> <<>>, total_sites |-> None,
     error |-> Some(text)]

\* from "response = session.mist_get(...)" to the return
OrgRankResult(entry, dur, limit, lookup, resp) ==
    IF resp.kind = "raises" THEN OrgFailure(dur, "exception")
    ELSE IF resp.kind = "ok" /\ RankResults(entry, resp).raised
    THEN OrgFailure(dur, "exception")
    ELSE LET results == IF resp.kind = "ok" THEN RankResults(entry, resp).results ELSE <<>>
             sites_list == [i \in DOMAIN results |-> SiteEntry(results[i], lookup)]
             sites_limited == Truncate(sites_list, limit)
         IN  [success |-> TRUE, duration |-> dur, sites |-> sites_limited,
              total_sites |-> Some(Len(sites_limited)), error |-> None]

OrgSitesCall(org, p) ==
    [api |-> "listOrgSites", org_id |-> org, limit |-> PageLimit, page |-> p,
     sle |-> "", start |-> 0, end |-> 0]

OrgRankCall(org, metric, start, end, limit) ==
    [api |-> "worst-sites-by-sle", org_id |-> org, limit |-> limit, page |-> 0,
     sle |-> metric, start |-> start, end |-> end]

OrgSelfCall ==
    [api |-> "getSelf", org_id |-> "", limit |-> 0, page |-> 0, sle |-> "", start |-> 0,
     end |-> 0]

\* an entry point up to the pagination loop: the sle_type check of
\* get_org_sle_insights, the session, and the organization id
OrgStart ==
    /\ pc = "idle"
    /\ \E entry \in OrgEntries, dur \in OrgDurationTokens, limit \in 0..MaxLimit,
          src \in OrgIdSources, session_ok \in BOOLEAN :
        \E arg \in OrgArgInputs(entry) :
        /\ org_entry' = entry
        /\ org_arg' = arg
        /\ org_duration' = dur
        /\ org_limit' = limit
        /\ IF entry = "insights" /\ arg \notin OrgSleTypes
           THEN /\ org_result' = Some(OrgFailure(dur, "Invalid sle_type"))
                /\ org_id' = None
                /\ org_calls' = <<>>
                /\ pc' = "org_done"
           ELSE IF ~session_ok
           THEN /\ org_result' = Some(OrgFailure(dur, "exception"))
                /\ org_id' = None
                /\ org_calls' = <<>>
                /\ pc' = "org_done"
           ELSE IF src = "detect_fails"
           THEN /\ org_result' =
                      Some(OrgFailure(dur, "Could not determine organization ID"))
                /\ org_id' = None
                /\ org_calls' = <<OrgSelfCall>>
                /\ pc' = "org_done"
           ELSE /\ org_result' = None
                /\ org_id' = IF src = "detected_without_id" THEN None ELSE Some("org1")
                /\ org_calls' = IF src = "configured" THEN <<>> ELSE <<OrgSelfCall>>
                /\ pc' = "org_pages"
    /\ page' = 1
    /\ site_name_map' = EmptyMap
    /\ org_page_lens' = <<>>
    /\ org_response' = None
    /\ UNCHANGED <<sleVars, detVars, scVars, ckVars, itVars, det_error, expVars, connVars,
                   org_sites>>

\* one turn of the "while True" loop: listOrgSites answers page "page" with its
\* slice of the upstream's sites, without data, or raises
OrgFetchPage ==
    /\ pc = "org_pages"
    /\ org_calls' = Append(org_calls,
                           OrgSitesCall(IF org_id = None THEN "" ELSE Val(org_id), page))
    /\ \/ \* the call raises: the except branch answers
          /\ org_result' = Some(OrgFailure(org_duration, "exception"))
          /\ org_page_lens' = Append(org_page_lens, None)
          /\ pc' = "org_done"
          /\ UNCHANGED <<page, site_name_map>>
       \/ \* a response without data ends the loop
          /\ org_page_lens' = Append(org_page_lens, None)
          /\ pc' = "org_rank"
          /\ UNCHANGED <<page, site_name_map, org_result>>
       \/ \* a page of sites
          LET sites_data == OrgPage(org_sites, page)
          IN  /\ org_page_lens' = Append(org_page_lens, Some(Len(sites_data)))
              /\ site_name_map' = PageMap(sites_data, 1, Len(sites_data)) @@ site_name_map
              /\ IF sites_data = <<>> \/ LastPage(sites_data)
                 THEN pc' = "org_rank" /\ page' = page
                 ELSE pc' = "org_pages" /\ page' = page + 1
              /\ UNCHANGED org_result
    /\ UNCHANGED <<sleVars, detVars, scVars, ckVars, itVars, det_error, expVars, connVars,
                   org_entry, org_arg,
                   org_duration, org_limit, org_id, org_sites, org_response>>

\* the ranking call and the result
OrgRank ==
    /\ pc = "org_rank"
    /\ \E resp \in RankResponses :
        /\ org_response' = Some(resp)
        /\ org_result' = Some(OrgRankResult(org_entry, org_duration, org_limit,
                                            site_name_map, resp))
    /\ org_calls' = Append(org_calls,
          OrgRankCall(IF org_id = None THEN "" ELSE Val(org_id),
                      RankMetric(org_entry, org_arg),
                      OrgNow - DurationSeconds(org_entry, org_duration), OrgNow,
                      org_limit))
    /\ pc' = "org_done"
    /\ UNCHANGED <<sleVars, detVars, scVars, ckVars, itVars, det_error, expVars, connVars,
                   org_entry, org_arg,
                   org_duration, org_limit, org_id, org_sites, page, site_name_map,
                   org_page_lens>>

----------------------------------------------------------------------------
(* CSV export: the export_sle_csv route of app.py *)

\* valid_categories = ["wifi", "wired", "wan"]
valid_categories == {"wifi", "wired", "wan"}

\* the methods class MistConnection defines that the routes call
MistConnectionMethods ==
    {"test_connection", "get_sites", "get_site_health", "get_site_sle",
     "get_sle_classifiers", "get_sle_classifier_details", "get_sle_impact_summary",
     "get_sle_impacted_items", "get_sle_details", "get_classifier_impact_details",
     "get_site_devices", "get_wireless_client_sessions", "get_wired_clients",
     "get_gateway_wan_status", "get_org_sle_insights", "get_org_worst_sites_by_metric"}

\* cells of a CSV row: a text, a number written with one decimal (f"{x:.1f}", x in
\* tenths), an integer
Text(t) == [kind |-> "text", text |-> t]
Fixed1(tenths) == [kind |-> "fixed1", whole |-> tenths \div 10, frac |-> tenths % 10]
IntCell(n) == [kind |-> "int", value |-> n]
Blank == Text("")

\* writer.writerow(["Metric", "SLE Value (%)", "Classifier", "Contribution (%)",
\* "Impact Count"])
CsvHeader ==
    <<Text("Metric"), Text("SLE Value (%)"), Text("Classifier"),
      Text("Contribution (%)"), Text("Impact Count")>>

\* d.get(key, default) on a dict
DictGet(d, key, default) == IF key \in DOMAIN d THEN d[key] ELSE default

\* f"{sle_value:.1f}" if sle_value is not None else "N/A"
SleDisplay(sle_value) == IF sle_value # None THEN Fixed1(Val(sle_value)) ELSE Text("N/A")

\* classifier.get("contribution", 0)
ContributionOf(classifier) == DictGet(classifier, "contribution", 0)

\* classifier.get("impact_count", classifier.get("degraded", 0))
ImpactCountOf(classifier) ==
    DictGet(classifier, "impact_count", DictGet(classifier, "degraded", 0))

\* the row of one classifier; f"{contribution:.1f}" if contribution else "0.0"
ClassifierRow(metric_name, sle_display, classifier) ==
    <<metric_name, sle_display,
      Text(DictGet(classifier, "name", "Unknown")),
      IF ContributionOf(classifier) # 0 THEN Fixed1(ContributionOf(classifier))
      ELSE Fixed1(0),
      IntCell(ImpactCountOf(classifier))>>

\* mutant: a metric without classifiers writes no row
MetricRows_SkipsBare(metric_name, detail) ==
    LET sle_display == SleDisplay(detail.sle_value)
        classifiers == detail.classifiers
    IN  [i \in DOMAIN classifiers |-> ClassifierRow(metric_name, sle_display, classifiers[i])]

\* the body of "for metric_name, metric_data in metrics.items()"
MetricRows(metric_name, detail) ==
    LET sle_display == SleDisplay(detail.sle_value)
        classifiers == detail.classifiers
    IN  IF classifiers # <<>>
        THEN [i \in DOMAIN classifiers |->
                 ClassifierRow(metric_name, sle_display, classifiers[i])]
        ELSE << <<metric_name, sle_display, Blank, Blank, Blank>> >>

\* the rows written for data["metrics"]: the header, then the rows of each metric
\* in the order of the dict
RECURSIVE CsvBody(_, _)
CsvBody(order, metrics) ==
    IF order = <<>> THEN <<>>
    ELSE MetricRows(Head(order), metrics[Head(order)]) \o CsvBody(Tail(order), metrics)

CsvRows(order, metrics) == <<CsvHeader>> \o CsvBody(order, metrics)

ExpError(status, err) == [status |-> status, kind |-> "json", error |-> Some(err), rows |-> <<>>]

\* category not in valid_categories: 400 with
\* f"Invalid category: {category}. Must be one of: {valid_categories}"
ExportReject ==
    /\ pc = "idle"
    /\ \E cat \in CategoryInputs :
        /\ cat \notin valid_categories
        /\ exp_category' = cat
        /\ exp_response' =
              Some(ExpError(400, ItError("Invalid category", Some(cat),
                                         Some(valid_categories))))
    /\ exp_calls' = <<>>
    /\ pc' = "exp_done"
    /\ UNCHANGED <<sleVars, detVars, scVars, ckVars, itVars, orgVars, det_error,
                   csv_order, csv_data, csv_rows, connVars>>

\* a valid category: the try block. mist.get_site_info(site_id) comes first; class
\* MistConnection defines no get_site_info, so the attribute lookup raises and the
\* except block answers 500 with str(error); otherwise get_sle_details would be
\* called and its metrics written as CSV with status 200
ExportCsv ==
    /\ pc = "idle"
    /\ \E cat \in CategoryInputs :
        /\ cat \in valid_categories
        /\ exp_category' = cat
    /\ IF "get_site_info" \notin MistConnectionMethods
       THEN /\ exp_response' = Some(ExpError(500, ItError("exception", None, None)))
            /\ exp_calls' = <<>>
       ELSE /\ exp_response' = Some([status |-> 200, kind |-> "csv", error |-> None,
                                     rows |-> CsvRows(csv_order, csv_data)])
            /\ exp_calls' = <<"get_site_info", "get_sle_details">>
    /\ pc' = "exp_done"
    /\ UNCHANGED <<sleVars, detVars, scVars, ckVars, itVars, orgVars, det_error,
                   csv_order, csv_data, csv_rows, connVars>>

\* CSV rows check: the row-building step applied to a data["metrics"]
CsvClfEntries ==
    { [kind |-> "dict", name |-> Some("c1"), samples |-> Some(<<Some(1)>>)],
      [kind |-> "dict", name |-> Some("c2"), samples |-> Some(<<None, Some(2)>>)],
      [kind |-> "dict", name |-> Some("c3"), samples |-> Some(<<Some(3)>>)] }

\* the MetricDetails get_sle_details stores for a metric
CsvDetails(metric) ==
    { MetricClassifiers(MetricHead(MetricDataInit(metric), head), raw, CkFullImpactMap) :
        head \in CkHeads, raw \in SeqsUpTo(CsvClfEntries, MaxClf) }

CsvOrders == { <<>>, << <<"coverage">> >>, << <<"coverage">>, <<"capacity">> >> }

CsvBuild ==
    /\ pc = "csv"
    /\ csv_rows' = CsvRows(csv_order, csv_data)
    /\ pc' = "csv_done"
    /\ UNCHANGED <<sleVars, detVars, scVars, ckVars, itVars, orgVars, det_error,
                   exp_category, exp_calls, exp_response, csv_order, csv_data, connVars>>

----------------------------------------------------------------------------
(* The process-wide connection: get_mist_connection of app.py and
   MistConnection._get_session, called by the request threads of the server *)

Threads == 1..MaxThreads

\* what each thread does between two of its steps belongs to no get-or-create
InRequest(p) == p \notin {"start", "done"}

\* mutant: no test, a connection is constructed by every call
ConnMissing_Always(global) == TRUE

\* if _mist_connection is None (0 stands for None)
ConnMissing(global) == global = 0

\* if self.session is None
SessMissing(session) == session = 0

\* get_mist_connection, the test of the global
ConnCheck(t) ==
    /\ th_pc[t] = "start"
    /\ th_pc' = [th_pc EXCEPT ![t] = IF ConnMissing(conn_global) THEN "conn_create"
                                     ELSE "conn_ret"]
    /\ overlapped' = (overlapped \/ \E u \in Threads \ {t} : InRequest(th_pc[u]))
    /\ UNCHANGED <<conn_global, conn_made, conn_session, sess_made, th_conn, th_sess>>

\* _mist_connection = MistConnection(): a new object, whose session is None
ConnCreate(t) ==
    /\ th_pc[t] = "conn_create"
    /\ conn_made' = conn_made + 1
    /\ conn_session' = Append(conn_session, 0)
    /\ conn_global' = conn_made + 1
    /\ th_pc' = [th_pc EXCEPT ![t] = "conn_ret"]
    /\ UNCHANGED <<sess_made, th_conn, th_sess, overlapped>>

\* return _mist_connection
ConnReturn(t) ==
    /\ th_pc[t] = "conn_ret"
    /\ th_conn' = [th_conn EXCEPT ![t] = conn_global]
    /\ th_pc' = [th_pc EXCEPT ![t] = "sess_check"]
    /\ UNCHANGED <<conn_global, conn_made, conn_session, sess_made, th_sess, overlapped>>

\* _get_session on the connection the thread holds, the test of self.session
SessCheck(t) ==
    /\ th_pc[t] = "sess_check"
    /\ th_pc' = [th_pc EXCEPT ![t] = IF SessMissing(conn_session[th_conn[t]])
                                     THEN "sess_create" ELSE "sess_ret"]
    /\ UNCHANGED <<conn_global, conn_made, conn_session, sess_made, th_conn, th_sess,
                   overlapped>>

\* self.session = mistapi.APISession(...)
SessCreate(t) ==
    /\ th_pc[t] = "sess_create"
    /\ sess_made' = sess_made + 1
    /\ conn_session' = [conn_session EXCEPT ![th_conn[t]] = sess_made + 1]
    /\ th_pc' = [th_pc EXCEPT ![t] = "sess_ret"]
    /\ UNCHANGED <<conn_global, conn_made, th_conn, th_sess, overlapped>>

\* return self.session
SessReturn(t) ==
    /\ th_pc[t] = "sess_ret"
    /\ th_sess' = [th_sess EXCEPT ![t] = conn_session[th_conn[t]]]
    /\ th_pc' = [th_pc EXCEPT ![t] = "done"]
    /\ UNCHANGED <<conn_global, conn_made, conn_session, sess_made, th_conn, overlapped>>

\* the thread serves its next request
ThreadAgain(t) ==
    /\ th_pc[t] = "done"
    /\ th_pc' = [th_pc EXCEPT ![t] = "start"]
    /\ UNCHANGED <<conn_global, conn_made, conn_session, sess_made, th_conn, th_sess,
                   overlapped>>

ConnStep ==
    /\ pc = "conn"
    /\ \E t \in Threads :
        \/ ConnCheck(t)
        \/ ConnCreate(t)
        \/ ConnReturn(t)
        \/ SessCheck(t)
        \/ SessCreate(t)
        \/ SessReturn(t)
        \/ ThreadAgain(t)
    /\ UNCHANGED <<pc, sleVars, detVars, scVars, ckVars, itVars, orgVars, det_error,
                   expVars>>

----------------------------------------------------------------------------
(* Specifications *)

IdleSle ==
    /\ duration = "1d" /\ req_duration = "1d" /\ via_route = FALSE
    /\ use_timestamps = FALSE /\ start_time = 0 /\ end_time = 0 /\ api_duration = "1d"
    /\ enabled_kind = "none" /\ enabled_metrics = <<>> /\ idx = 0
    /\ sle_data = SleDataInit /\ ref_sle = SleDataInit /\ outcomes = <<>>
    /\ calls = <<>>

IdleExp ==
    /\ exp_category = "" /\ exp_calls = <<>> /\ exp_response = None
    /\ csv_order = <<>> /\ csv_data = EmptyMap /\ csv_rows = <<>>

\* the state of a process that has served no request yet
IdleConn ==
    /\ conn_global = 0 /\ conn_made = 0 /\ conn_session = <<>> /\ sess_made = 0
    /\ th_pc = [t \in Threads |-> "start"]
    /\ th_conn = [t \in Threads |-> 0]
    /\ th_sess = [t \in Threads |-> 0]
    /\ overlapped = FALSE

IdleDet ==
    /\ det_error = None
    /\ category = "" /\ category_metrics = <<>> /\ result = EmptyMap
    /\ metric_data = None /\ classifier_impact_map = EmptyMap
    /\ det_outcomes = <<>> /\ clf_zero_seen = FALSE /\ clf_budget = 0

IdleScore ==
    /\ sc_total = <<>> /\ sc_degraded = <<>> /\ sc_site = None /\ sc_detail = None

IdleIt ==
    /\ item_type = "" /\ it_classifier = None /\ it_via_route = FALSE
    /\ it_calls = <<>> /\ it_data = None /\ it_result = None

IdleOrg ==
    /\ org_entry = "" /\ org_arg = "" /\ org_duration = "1d" /\ org_limit = 0
    /\ org_id = None /\ page = 0 /\ site_name_map = EmptyMap
    /\ org_page_lens = <<>> /\ org_calls = <<>> /\ org_response = None
    /\ org_result = None

IdleCk ==
    /\ ck_head = CHOOSE h \in CkHeads : h.kind = "nosle"
    /\ raw_classifiers = <<>> /\ ck_legacy_kind = "none" /\ ck_impact_map = EmptyMap
    /\ ck_metric_data = None /\ ck_ref_data = None

Init ==
    /\ pc = "idle"
    /\ IdleSle
    /\ IdleExp
    /\ IdleConn
    /\ IdleDet
    /\ IdleScore
    /\ IdleCk
    /\ IdleIt
    /\ IdleOrg /\ org_sites = <<>>

NextSle == SleSessionFails \/ SleStart \/ SleSkipMetric \/ SleFetchMetric \/ SleReturn

SpecSle == Init /\ [][NextSle]_vars

InitScore ==
    /\ pc = "score"
    /\ IdleSle
    /\ IdleExp
    /\ IdleConn
    /\ IdleDet
    /\ \E b \in BucketSeqs :
        /\ sc_total = [i \in DOMAIN b |-> b[i][1]]
        /\ sc_degraded = [i \in DOMAIN b |-> b[i][2]]
    /\ sc_site = None /\ sc_detail = None
    /\ IdleCk
    /\ IdleIt
    /\ IdleOrg /\ org_sites = <<>>

InitCk ==
    /\ pc = "clf"
    /\ IdleSle
    /\ IdleExp
    /\ IdleConn
    /\ IdleDet
    /\ IdleScore
    /\ ck_head \in CkHeads
    /\ raw_classifiers \in SeqsUpTo(CkClfEntries, MaxClf + 1)
    /\ ck_legacy_kind = "none" /\ ck_impact_map = EmptyMap
    /\ ck_metric_data = None /\ ck_ref_data = None
    /\ IdleIt
    /\ IdleOrg /\ org_sites = <<>>

NextCk == CkLegacy \/ CkCompute

SpecCk == InitCk /\ [][NextCk]_vars

NextDet == DetInvalidCategory \/ DetStart \/ DetTrend \/ DetImpact \/ DetClassifiers \/ DetReturn

SpecDet == Init /\ [][NextDet]_vars

NextScore == ScoreCompute

SpecScore == InitScore /\ [][NextScore]_vars

NextItems == ItRouteRejects \/ ItStart \/ ItAnswer

SpecItems == Init /\ [][NextItems]_vars

InitRank ==
    /\ pc = "rank"
    /\ IdleSle
    /\ IdleExp
    /\ IdleConn
    /\ IdleDet
    /\ IdleScore
    /\ IdleCk
    /\ item_type = "gateways" /\ it_classifier = None /\ it_via_route = FALSE
    /\ it_calls = <<ItCall("gateways", "gateway-health", "1d", None)>>
    /\ it_data \in {Some(d) : d \in RankDataInputs}
    /\ it_result = None
    /\ IdleOrg /\ org_sites = <<>>

NextRank == RankCompute

SpecRank == InitRank /\ [][NextRank]_vars

InitOrg ==
    /\ pc = "idle"
    /\ IdleSle
    /\ IdleExp
    /\ IdleConn
    /\ IdleDet
    /\ IdleScore
    /\ IdleCk
    /\ IdleIt
    /\ IdleOrg
    /\ org_sites \in SmallOrgs

InitCsv ==
    /\ pc = "csv"
    /\ IdleSle
    /\ IdleConn
    /\ IdleDet
    /\ IdleScore
    /\ IdleCk
    /\ IdleIt
    /\ IdleOrg /\ org_sites = <<>>
    /\ exp_category = "" /\ exp_calls = <<>> /\ exp_response = None
    /\ csv_order \in CsvOrders
    /\ csv_data \in
          { [m \in Range(csv_order) |-> pick[m]] :
              pick \in [Range(csv_order) -> UNION {CsvDetails(m) : m \in Range(csv_order)}] }
    /\ \A m \in DOMAIN csv_data : csv_data[m].name = m
    /\ csv_rows = <<>>

NextCsv == CsvBuild

SpecCsv == InitCsv /\ [][NextCsv]_vars

InitConn ==
    /\ pc = "conn"
    /\ IdleSle
    /\ IdleExp
    /\ IdleConn
    /\ IdleDet
    /\ IdleScore
    /\ IdleCk
    /\ IdleIt
    /\ IdleOrg /\ org_sites = <<>>

NextConn == ConnStep

SpecConn == InitConn /\ [][NextConn]_vars

NextExport == ExportReject \/ ExportCsv

NextOrg == OrgStart \/ OrgFetchPage \/ OrgRank

SpecOrg == InitOrg /\ [][NextOrg]_vars

\* the start of the pagination loop of either entry point, for an organization of
\* up to 2001 sites
InitPages ==
    /\ pc = "org_pages"
    /\ IdleSle
    /\ IdleExp
    /\ IdleConn
    /\ IdleDet
    /\ IdleScore
    /\ IdleCk
    /\ IdleIt
    /\ org_entry \in OrgEntries
    /\ org_arg = "coverage" /\ org_duration = "1d" /\ org_limit = MaxLimit
    /\ org_id \in {None, Some("org1")}
    /\ org_sites \in BulkOrgs
    /\ page = 1 /\ site_name_map = EmptyMap /\ org_page_lens = <<>>
    /\ org_calls = <<>> /\ org_response = None /\ org_result = None

NextPages == OrgFetchPage

SpecPages == InitPages /\ [][NextPages]_vars /\ WF_vars(OrgFetchPage)

Next == NextSle \/ NextDet \/ NextItems \/ NextOrg \/ NextExport

Spec == Init /\ [][Next]_vars

----------------------------------------------------------------------------
(* Properties of get_site_sle *)

InSiteSle == pc \in {"sle_loop", "sle_done"}
Processed == 1..Len(outcomes)
Categories == {"wifi", "wired", "wan"}
IsTrendCall(c) == c.api = "getSiteSleSummaryTrend"

\* the processed metrics that produced a score and are written under display name dn
\* of category cat
Scorers(cat, dn) ==
    {i \in Processed : /\ outcomes[i].kind = "scored"
                       /\ DisplayName(enabled_metrics[i]) = dn
                       /\ CategoryOf(enabled_metrics[i]) = Some(cat)}

\* C1: a metric whose series has sum(total) = 0 (empty and all-null series included)
\* writes no entry: every entry of every category's metrics map comes from a
\* processed metric with sum(total) > 0, so the display name of a zero-total metric
\* is in a map only when another metric wrote it.
C1_ZeroTotalAbsent ==
    InSiteSle =>
        \A cat \in Categories : \A dn \in DOMAIN sle_data[cat].metrics :
            Scorers(cat, dn) # {}

C1_Witness ==
    /\ pc = "sle_done"
    /\ \E i \in Processed :
        /\ outcomes[i].kind = "zero"
        /\ \A cat \in Categories :
              DisplayName(enabled_metrics[i]) \notin DOMAIN sle_data[cat].metrics
    /\ \E cat \in Categories : sle_data[cat].metrics # EmptyMap

\* C3: metrics that collapse to one display name leave one entry, whose value is the
\* score of the first of them, in enabled-list order, that produced a score.
C3_FirstWriteWins ==
    InSiteSle =>
        \A cat \in Categories : \A dn \in DOMAIN sle_data[cat].metrics :
            /\ Scorers(cat, dn) # {}
            /\ LET first == CHOOSE i \in Scorers(cat, dn) : \A j \in Scorers(cat, dn) : i <= j
               IN  Some(sle_data[cat].metrics[dn]) = outcomes[first].score

C3_Witness ==
    /\ pc = "sle_done"
    /\ \E i, j \in Processed :
        /\ i < j
        /\ enabled_metrics[i] # enabled_metrics[j]
        /\ DisplayName(enabled_metrics[i]) = DisplayName(enabled_metrics[j])
        /\ outcomes[i].kind = "scored" /\ outcomes[j].kind = "scored"
        /\ outcomes[i].score # outcomes[j].score
        /\ Cardinality(DOMAIN sle_data.wired.metrics) = 1

\* C4: every series fetch of get_site_sle carries duration 1d when the caller's token
\* is outside {10m, 1h, today, 1d, 1w} or is today or 1d, the token itself for 1h and
\* 1w, and an explicit start/end pair of 600 seconds and no duration for 10m; this
\* holds through the route and for a direct call of the method.
C4_DurationClamped ==
    InSiteSle =>
        \A k \in DOMAIN calls : IsTrendCall(calls[k]) =>
            CASE req_duration = "10m" ->
                    /\ calls[k].duration = None
                    /\ calls[k].start # None /\ calls[k].end # None
                    /\ Val(calls[k].end) - Val(calls[k].start) = 600
              [] req_duration \in {"1h", "1w"} ->
                    calls[k].duration = Some(req_duration) /\ calls[k].start = None
              [] OTHER ->
                    calls[k].duration = Some("1d") /\ calls[k].start = None

C4_Witness ==
    /\ pc = "sle_done"
    /\ req_duration = "99d"
    /\ ~via_route
    /\ \E k \in DOMAIN calls : IsTrendCall(calls[k]) /\ calls[k].duration = Some("1d")

\* C6: when the fetch of the enabled-metrics list fails, get_site_sle does not raise,
\* issues no series fetch and returns the three categories with an empty metrics map
\* and available = false.
C6_EnabledFailureDegrades ==
    (enabled_kind = "error" /\ pc # "idle") =>
        /\ pc \in {"sle_loop", "sle_done"}
        /\ calls = <<EnabledCall>>
        /\ DOMAIN sle_data = Categories
        /\ \A cat \in Categories :
              sle_data[cat] = [metrics |-> EmptyMap, available |-> FALSE]

C6_Witness == enabled_kind = "error" /\ pc = "sle_done"

\* the enabled metrics that map to a category, in enabled-list order
RECURSIVE Categorized(_)
Categorized(ms) ==
    IF ms = <<>> THEN <<>>
    ELSE (IF CategoryOf(Head(ms)) # None THEN <<Head(ms)>> ELSE <<>>) \o Categorized(Tail(ms))

\* C7: whatever subset of the series fetches fails, the loop runs to its end: at the
\* return every enabled metric with a category has been fetched once, in order, and
\* at every point the result equals that of the reference run in which the failing
\* metrics are not enabled (a failing metric changes nothing).
C7_FailureSkipsOneMetric ==
    InSiteSle =>
        /\ sle_data = ref_sle
        /\ pc = "sle_done" =>
              /\ Len(outcomes) = Len(enabled_metrics)
              /\ [k \in 1..(Len(calls) - 1) |-> calls[k + 1].metric]
                    = Categorized(enabled_metrics)
              /\ \A k \in 2..Len(calls) : IsTrendCall(calls[k])

C7_Witness ==
    /\ pc = "sle_done"
    /\ \E i, j \in Processed :
        /\ i < j
        /\ outcomes[i].kind = "failed"
        /\ outcomes[j].kind = "scored"
        /\ CategoryOf(enabled_metrics[i]) = CategoryOf(enabled_metrics[j])
        /\ sle_data[Val(CategoryOf(enabled_metrics[j]))].available

----------------------------------------------------------------------------
(* Properties of the score *)

\* the sum of the entries of a sample array that are present
SumPresent(samples) ==
    LET f[i \in 0..Len(samples)] ==
            IF i = 0 THEN 0
            ELSE f[i - 1] + (IF samples[i] = None THEN 0 ELSE Val(samples[i]))
    IN  f[Len(samples)]

\* s tenths is ((T - D) / T) * 100 rounded to one decimal: no tenth is nearer
IsRoundedScore(s, T, D) == 2 * T * s - 2000 * (T - D) \in (0 - T)..T

\* both reported scores of the series of the score check are the rounded formula
ScoresFollowFormula ==
    \A score \in {sc_site, sc_detail} :
        score # None =>
            /\ SumPresent(sc_total) > 0
            /\ IsRoundedScore(Val(score), SumPresent(sc_total), SumPresent(sc_degraded))

ScoresInRange ==
    \A score \in {sc_site, sc_detail} : score # None => Val(score) \in 0..1000

\* a bucket satisfies 0 <= degraded <= total as far as its two values are present
BucketInOrder(t, d) == (t # None /\ d # None) => Val(d) <= Val(t)

\* a bucket without total carries no degraded samples
BucketAligned(t, d) == (t = None /\ d # None) => Val(d) = 0

\* C2 as stated: the reported score is the rounded formula, and lies in [0,100] for
\* every series, nulls anywhere, whose buckets satisfy 0 <= degraded <= total.
C2_ScoreInRange_AsClaimed ==
    pc = "score_done" =>
        /\ ScoresFollowFormula
        /\ (\A i \in DOMAIN sc_total : BucketInOrder(sc_total[i], sc_degraded[i]))
              => ScoresInRange

\* C2 as amended: the reported score is the rounded formula over the sums of the
\* non-null entries, and lies in [0,100] for every series whose buckets satisfy
\* 0 <= degraded <= total and in which a bucket with a null total has a null or
\* zero degraded.
C2_ScoreInRange ==
    pc = "score_done" =>
        /\ ScoresFollowFormula
        /\ (\A i \in DOMAIN sc_total :
                /\ BucketInOrder(sc_total[i], sc_degraded[i])
                /\ BucketAligned(sc_total[i], sc_degraded[i]))
              => ScoresInRange

C2_Witness ==
    /\ pc = "score_done"
    /\ \E i, j \in DOMAIN sc_total :
        /\ sc_total[i] = None /\ sc_degraded[i] = None
        /\ sc_total[j] # None /\ sc_degraded[j] # None
        /\ Val(sc_degraded[j]) > 0 /\ Val(sc_degraded[j]) < Val(sc_total[j])
    /\ sc_site # None /\ sc_site = sc_detail
    /\ Val(sc_site) \in 1..999

----------------------------------------------------------------------------
(* Properties of the duration parameter *)

\* the duration tokens some endpoint enumerates
EnumeratedDurations == {"10m", "1h", "today", "1d", "1w", "7d", "2w"}

\* C5: a request that enters through a route never hands the upstream a duration
\* outside the enumerated tokens.
C5_DurationEnumerated ==
    via_route =>
        \A k \in DOMAIN calls :
            calls[k].duration # None => Val(calls[k].duration) \in EnumeratedDurations

----------------------------------------------------------------------------
(* Properties of get_sle_details *)

InDetails == pc \in {"det_loop", "det_impact", "det_clf", "det_done"}

\* the metrics of the category's known list that are enabled for the site, by their
\* own name or as the prefix of an enabled name
EnabledKnown ==
    {m \in Range(metric_categories[category]) :
        \E k \in DOMAIN enabled_metrics :
            \/ enabled_metrics[k] = m
            \/ /\ Len(enabled_metrics[k]) > Len(m)
               /\ \A t \in DOMAIN m : enabled_metrics[k][t] = m[t]}

\* C8 as stated: every metric of the category's known list has an entry in the
\* result, whatever the upstream does.
C8_EveryKnownMetric_AsClaimed ==
    pc = "det_done" => \A m \in Range(metric_categories[category]) : m \in DOMAIN result

\* C8 as amended: the result has an entry for exactly the metrics of the category's
\* known list that are enabled for the site (by name or as prefix of an enabled
\* name), whatever their fetches answered; it is empty when the enabled-metrics
\* fetch fails.
C8_EveryEnabledKnownMetric ==
    pc = "det_done" =>
        /\ DOMAIN result = EnabledKnown
        /\ enabled_kind = "error" => result = EmptyMap

C8_Witness ==
    /\ pc = "det_done"
    /\ <<"capacity">> \in DOMAIN result
    /\ <<"coverage">> \notin DOMAIN result
    /\ \E i \in DOMAIN det_outcomes : det_outcomes[i] \in {"error", "nondict", "badsle"}

\* C9: an enabled metric of the category whose trend fetch fails is in the result
\* under its catalog name with sle_value = null, classifiers = [] and impact = {},
\* and the loop goes on: at the return every metric of the loop has its entry.
C9_FailedMetricKept ==
    InDetails =>
        /\ \A i \in DOMAIN det_outcomes :
              det_outcomes[i] = "error" =>
                  /\ category_metrics[i] \in DOMAIN result
                  /\ result[category_metrics[i]] =
                        [name |-> category_metrics[i], sle_value |-> None,
                         classifiers |-> <<>>, impact |-> EmptyMap]
        /\ pc = "det_done" =>
              /\ Len(det_outcomes) = Len(category_metrics)
              /\ \A i \in DOMAIN category_metrics : category_metrics[i] \in DOMAIN result

C9_Witness ==
    /\ pc = "det_done"
    /\ \E i, j \in DOMAIN det_outcomes :
        /\ i < j
        /\ det_outcomes[i] = "error"
        /\ det_outcomes[j] = "sle"
        /\ result[category_metrics[j]].sle_value # None
        /\ result[category_metrics[j]].classifiers # <<>>

\* C10: every classifier of every MetricDetail has degraded_sum > 0, degraded_sum
\* being the sum of its non-null degraded samples; a classifier whose sum is 0 is
\* never in the list.
C10_NoZeroClassifier ==
    InDetails =>
        \A m \in DOMAIN result : \A k \in DOMAIN result[m].classifiers :
            /\ result[m].classifiers[k].degraded_sum
                  = SumPresent(result[m].classifiers[k].samples)
            /\ result[m].classifiers[k].degraded_sum > 0

C10_Witness ==
    /\ pc = "det_done"
    /\ clf_zero_seen
    /\ \E m \in DOMAIN result : Len(result[m].classifiers) = 1

----------------------------------------------------------------------------
(* Properties of the classifiers of a MetricDetail *)

CkDone == pc = "clf_done"
CkEmitted == Val(ck_metric_data).classifiers

\* the degraded sum of entry i of the trend response's classifiers list
RawDegraded(i) ==
    IF raw_classifiers[i].kind = "dict" /\ raw_classifiers[i].samples # None
    THEN SumPresent(Val(raw_classifiers[i].samples)) ELSE 0

\* the sum of all classifiers' degraded sums of the response
RawDegradedTotal ==
    LET f[i \in 0..Len(raw_classifiers)] ==
            IF i = 0 THEN 0 ELSE f[i - 1] + RawDegraded(i)
    IN  f[Len(raw_classifiers)]

\* the classifiers of the response with non-zero degradation
RawNonZero == {i \in DOMAIN raw_classifiers : RawDegraded(i) > 0}

\* the sum of the percentages of the emitted classifiers, in tenths
EmittedPercentageSum ==
    LET f[i \in 0..Len(CkEmitted)] ==
            IF i = 0 THEN 0 ELSE f[i - 1] + CkEmitted[i].percentage
    IN  f[Len(CkEmitted)]

\* p tenths is part / whole * 100 rounded to one decimal
IsRoundedShare(p, part, whole) == 2 * whole * p - 2000 * part \in (0 - whole)..whole

\* C11: the classifiers of a MetricDetail are in non-increasing order of percentage,
\* whatever the trend response and the legacy impact response hold.
C11_SortedByPercentage ==
    CkDone =>
        \A k \in 1..(Len(CkEmitted) - 1) :
            CkEmitted[k].percentage >= CkEmitted[k + 1].percentage

EmittedPercentagesRounded ==
    \A k \in DOMAIN CkEmitted :
        /\ RawDegradedTotal > 0
        /\ IsRoundedShare(CkEmitted[k].percentage, CkEmitted[k].degraded_sum,
                          RawDegradedTotal)

\* C12 as stated: each percentage is the rounded share of the classifier in the sum
\* of all classifiers' degraded sums, and the percentages of the emitted classifiers
\* sum to at most 100 and to 100 within 0.2.
C12_PercentagesSumTo100_AsClaimed ==
    (CkDone /\ CkEmitted # <<>>) =>
        /\ EmittedPercentagesRounded
        /\ EmittedPercentageSum <= 1000
        /\ EmittedPercentageSum >= 998

\* C12 as amended: each percentage is the rounded share of the classifier in the sum
\* of all classifiers' degraded sums of the response; the percentages of the n
\* emitted classifiers sum to at most 100 + 0.05 n, and to at least 100 - 0.05 n when
\* every classifier of the response with non-zero degradation is emitted.
C12_PercentagesSumTo100 ==
    (CkDone /\ CkEmitted # <<>>) =>
        /\ EmittedPercentagesRounded
        /\ 2 * EmittedPercentageSum <= 2000 + Len(CkEmitted)
        /\ Len(CkEmitted) = Cardinality(RawNonZero)
              => 2 * EmittedPercentageSum >= 2000 - Len(CkEmitted)

C12_Witness ==
    /\ CkDone
    /\ Len(CkEmitted) = 3
    /\ Cardinality(RawNonZero) = 3
    /\ EmittedPercentageSum # 1000

AllImpactZero(c) ==
    /\ DOMAIN c.impact = {"num_aps", "total_aps", "num_gateways", "total_gateways",
                          "num_switches", "total_switches", "num_users", "total_users"}
    /\ \A f \in DOMAIN c.impact : c.impact[f] = 0

\* C13: when the legacy summary fetch fails or gives no impact map, sle_value and the
\* classifiers are those of the run in which the legacy fetch succeeds for every
\* classifier (same order, names, degraded sums, percentages and samples), every
\* emitted classifier has all eight impact fields 0; and under any legacy answer an
\* emitted classifier whose name is not in the impact map has all eight fields 0.
C13_LegacyFailureNonFatal ==
    CkDone =>
        /\ ck_impact_map = EmptyMap =>
              LET ref == Val(ck_ref_data).classifiers
              IN  /\ Val(ck_metric_data).sle_value = Val(ck_ref_data).sle_value
                  /\ Val(ck_metric_data).impact = Val(ck_ref_data).impact
                  /\ Len(CkEmitted) = Len(ref)
                  /\ \A k \in DOMAIN CkEmitted :
                        /\ CkEmitted[k].name = ref[k].name
                        /\ CkEmitted[k].degraded_sum = ref[k].degraded_sum
                        /\ CkEmitted[k].percentage = ref[k].percentage
                        /\ CkEmitted[k].samples = ref[k].samples
                        /\ AllImpactZero(CkEmitted[k])
        /\ \A k \in DOMAIN CkEmitted :
              CkEmitted[k].name \notin DOMAIN ck_impact_map => AllImpactZero(CkEmitted[k])

C13_Witness ==
    /\ CkDone
    /\ ck_legacy_kind = "error"
    /\ Len(CkEmitted) = 2
    /\ Val(ck_metric_data).sle_value # None
    /\ \E k \in DOMAIN Val(ck_ref_data).classifiers :
          ~AllImpactZero(Val(ck_ref_data).classifiers[k])

----------------------------------------------------------------------------
(* Properties of get_sle_impacted_items *)

ItemTypes == {"gateways", "interfaces", "applications", "clients", "wireless_clients"}

RankDone == pc = "rank_done"
RankRaw == Val(Val(it_data).items)
RankItems == Val(it_result).items

\* a count field of an item, 0 when the item does not carry it
CountOf(item, f) == IF f \in DOMAIN item THEN Val(item[f]) ELSE 0

\* the sum of the degraded counts of the upstream list
RankDegradedTotal ==
    LET f[i \in 0..Len(RankRaw)] ==
            IF i = 0 THEN 0 ELSE f[i - 1] + CountOf(RankRaw[i], "degraded")
    IN  f[Len(RankRaw)]

\* the sum of the overall_impact values of the returned items, in tenths
RankImpactSum ==
    LET f[i \in 0..Len(RankItems)] ==
            IF i = 0 THEN 0 ELSE f[i - 1] + RankItems[i]["overall_impact"]
    IN  f[Len(RankItems)]

ImpactIsRoundedShare ==
    \A k \in DOMAIN RankItems :
        IF RankDegradedTotal > 0
        THEN IsRoundedShare(RankItems[k]["overall_impact"],
                            CountOf(RankItems[k], "degraded"), RankDegradedTotal)
        ELSE RankItems[k]["overall_impact"] = 0

\* C15 as stated: overall_impact is the rounded share of the item in the sum of the
\* degraded counts, the values sum to 100.0 within 0.1 when some item has a
\* non-zero degraded count, and all are 0 when every degraded count is 0.
C15_OverallImpactSums_AsClaimed ==
    (RankDone /\ Val(it_result).error = None) =>
        /\ ImpactIsRoundedShare
        /\ RankDegradedTotal > 0 => RankImpactSum \in 999..1001

\* C15 as amended: overall_impact is the rounded share of the item in the sum of the
\* degraded counts; when some item has a non-zero degraded count the values of the n
\* items sum to 100.0 within 0.05 n, and all are 0 when every degraded count is 0.
C15_OverallImpactSums ==
    (RankDone /\ Val(it_result).error = None) =>
        /\ ImpactIsRoundedShare
        /\ RankDegradedTotal > 0 =>
              2 * RankImpactSum - 2000 \in (0 - Len(RankItems))..Len(RankItems)

C15_Witness ==
    /\ RankDone
    /\ Val(it_result).error = None
    /\ Len(RankItems) = 6
    /\ RankImpactSum = 1002

\* a returned item without the two derived fields
Original(item) == [f \in DOMAIN item \ {"failure_rate", "overall_impact"} |-> item[f]]

----------------------------------------------------------------------------
(* Properties of the org-wide ranker *)

OrgDone == pc = "org_done"
OrgSucceeded == OrgDone /\ Val(org_result).success
OrgReturned == Val(org_result).sites

\* the rows of the upstream ranking response
UpstreamRows ==
    IF org_response # None /\ Val(org_response).shape \in {"list", "results"}
    THEN Val(org_response).rows ELSE <<>>

\* C17: when the organization id cannot be resolved or the ranking call answers a
\* non-success status, the result is {success: false, sites: [], error}.
C17_FailureReported ==
    (OrgDone /\ (org_id = None
                 \/ (org_response # None /\ Val(org_response).kind = "status"))) =>
        /\ ~Val(org_result).success
        /\ Val(org_result).sites = <<>>
        /\ Val(org_result).error # None

\* the name the lookup holds for an id, "Unknown Site" for an id it does not hold
LookupName(id) ==
    IF id \in DOMAIN site_name_map THEN site_name_map[id] ELSE Some("Unknown Site")

RowSiteId(row) == IF "site_id" \in DOMAIN row.fields THEN row.fields["site_id"] ELSE <<>>

\* every field of the upstream row but site_id is in the output row, unchanged
FieldsCopied(out, row) ==
    \A f \in DOMAIN row.fields \ {"site_id"} : f \in DOMAIN out /\ out[f] = row.fields[f]

C19_TruncatedToLimit ==
    OrgSucceeded =>
        /\ Len(OrgReturned) <= org_limit
        /\ Len(OrgReturned) <= Len(UpstreamRows)
        /\ Len(OrgReturned) = org_limit \/ Len(OrgReturned) = Len(UpstreamRows)
        /\ \A k \in DOMAIN OrgReturned :
              /\ OrgReturned[k]["site_id"] = RowSiteId(UpstreamRows[k])
              /\ FieldsCopied(OrgReturned[k], UpstreamRows[k])
        /\ Val(org_result).total_sites = Some(Len(OrgReturned))

C19_Witness ==
    /\ OrgSucceeded
    /\ org_limit = 1
    /\ Len(UpstreamRows) = 2
    /\ Len(OrgReturned) = 1
    /\ RowSiteId(UpstreamRows[1]) # RowSiteId(UpstreamRows[2])

\* the listOrgSites calls of the request, in order
PageCalls == SelectSeq(org_calls, LAMBDA c : c.api = "listOrgSites")

\* the sites of fetched page k
FetchedSites(k) ==
    {org_sites[i] : i \in ((k - 1) * 1000 + 1)..((k - 1) * 1000 + Val(org_page_lens[k]))}

PaginationInOrder ==
    /\ Len(PageCalls) = Len(org_page_lens)
    /\ \A k \in DOMAIN PageCalls : PageCalls[k].page = k /\ PageCalls[k].limit = 1000
    /\ \A k \in 1..(Len(org_page_lens) - 1) : org_page_lens[k] = Some(1000)
    /\ pc = "org_pages" =>
          /\ page = Len(org_page_lens) + 1
          /\ \A k \in DOMAIN org_page_lens : org_page_lens[k] = Some(1000)
    /\ pc = "org_rank" =>
          /\ org_page_lens # <<>>
          /\ org_page_lens[Len(org_page_lens)] # Some(1000)
          /\ \A k \in DOMAIN org_page_lens : org_page_lens[k] # None =>
                \A site \in FetchedSites(k) :
                    /\ site.id \in DOMAIN site_name_map
                    /\ \/ site_name_map[site.id] = SiteName(site)
                       \/ \E k2 \in DOMAIN org_page_lens :
                             /\ org_page_lens[k2] # None
                             /\ \E other \in FetchedSites(k2) :
                                   /\ other.id = site.id
                                   /\ site_name_map[site.id] = SiteName(other)

\* C20: the pagination requests pages 1, 2, 3, ... in order with page size 1000,
\* page k+1 only after page k came back with exactly 1000 entries; it stops at the
\* first page that is short, empty or without data and then holds an entry for every
\* site of every fetched page; and it always comes to an end.
C20_PaginationTerminates ==
    /\ []PaginationInOrder
    /\ <>(pc # "org_pages")

C20_Witness ==
    /\ pc = "org_rank"
    /\ org_page_lens = <<Some(1000), Some(1000), Some(1)>>
    /\ Cardinality(DOMAIN site_name_map) = 2001

----------------------------------------------------------------------------
(* Properties of the ranking window *)

\* the ranking call of a finished request, when one was issued
RankCallIssued == OrgDone /\ org_response # None
RankCallOf == org_calls[Len(org_calls)]

\* the lookup table as the specification states it
StatedSeconds ==
    ("1h" :> 3600) @@ ("3h" :> 10800) @@ ("6h" :> 21600) @@ ("12h" :> 43200)
    @@ ("1d" :> 86400) @@ ("7d" :> 604800) @@ ("2w" :> 1209600)

\* C21: for every duration token of the lookup table and in both entry points, the
\* ranking call is issued with end = now and end - start equal to the table's
\* seconds for the token, the token being the duration echoed in the result.
C21_WindowMatchesDuration ==
    (RankCallIssued /\ org_duration \in DOMAIN StatedSeconds) =>
        /\ RankCallOf.api = "worst-sites-by-sle"
        /\ RankCallOf.end = OrgNow
        /\ RankCallOf.end - RankCallOf.start = StatedSeconds[org_duration]
        /\ Val(org_result).duration = org_duration

----------------------------------------------------------------------------
(* Properties of the CSV export *)

\* C22: for a valid category the export route answers status 200 and CSV text whose
\* first row is the header Metric, SLE Value (%), Classifier, Contribution (%),
\* Impact Count, not an error response.
C22_ExportAnswersCsv ==
    (pc = "exp_done" /\ exp_category \in {"wifi", "wired", "wan"}) =>
        /\ Val(exp_response).status = 200
        /\ Val(exp_response).kind = "csv"
        /\ Val(exp_response).error = None
        /\ Val(exp_response).rows # <<>>
        /\ Val(exp_response).rows[1] = CsvHeader

CsvDone == pc = "csv_done"

\* the rows written for a metric, in order
CsvRowsOf(metric) == SelectSeq(Tail(csv_rows), LAMBDA row : row[1] = metric)

\* C23: after the header, the row-building step writes exactly max(1, number of
\* classifiers) rows per metric and no other row: one row per classifier, in order
\* and under its name, or one row with blank classifier, contribution and impact
\* count for a metric without classifiers; the SLE value cell is "N/A" exactly when
\* sle_value is null and the one-decimal rendering of sle_value otherwise.
C23_RowsPerMetric ==
    CsvDone =>
        /\ csv_rows[1] = CsvHeader
        /\ \A k \in 2..Len(csv_rows) : csv_rows[k][1] \in Range(csv_order)
        /\ \A m \in Range(csv_order) :
            LET rows == CsvRowsOf(m)
                clfs == csv_data[m].classifiers
                sle_value == csv_data[m].sle_value
            IN  /\ Len(rows) = IF Len(clfs) > 1 THEN Len(clfs) ELSE 1
                /\ clfs = <<>> =>
                      rows[1][3] = Blank /\ rows[1][4] = Blank /\ rows[1][5] = Blank
                /\ clfs # <<>> =>
                      \A i \in DOMAIN clfs : rows[i][3] = Text(clfs[i].name)
                /\ \A i \in DOMAIN rows :
                      /\ (rows[i][2] = Text("N/A")) <=> (sle_value = None)
                      /\ sle_value # None => rows[i][2] = Fixed1(Val(sle_value))

C23_Witness ==
    /\ CsvDone
    /\ Len(csv_order) = 2
    /\ Len(csv_data[csv_order[1]].classifiers) = 2
    /\ csv_data[csv_order[1]].sle_value # None
    /\ csv_data[csv_order[2]].classifiers = <<>>
    /\ csv_data[csv_order[2]].sle_value = None
    /\ Len(csv_rows) = 4

\* C24: in each classifier row the Contribution (%) cell is the percentage that
\* get_sle_details computed for that classifier, with one decimal.
C24_ContributionIsPercentage ==
    CsvDone =>
        \A m \in Range(csv_order) :
            \A i \in DOMAIN csv_data[m].classifiers :
                CsvRowsOf(m)[i][4] = Fixed1(csv_data[m].classifiers[i].percentage)

----------------------------------------------------------------------------
(* Properties of the process-wide connection *)

\* the connections and sessions the threads have been handed
HandedConns == {th_conn[t] : t \in Threads} \ {0}
HandedSessions == {th_sess[t] : t \in Threads} \ {0}

\* C25 as stated: across any interleaving of concurrent requests the connection and
\* its session are each created at most once, and every call returns the same
\* connection and the same session.
C25_CreatedOnce_AsClaimed ==
    /\ conn_made <= 1
    /\ sess_made <= 1
    /\ Cardinality(HandedConns) <= 1
    /\ Cardinality(HandedSessions) <= 1

\* C25 as amended: as long as no two requests have been inside the get-or-create
\* code at the same time, the connection and its session are each created at most
\* once and every call returns that connection and that session; when first uses
\* overlap, every thread can still construct at most one connection, and a call
\* always returns a connection and a session that were constructed.
C25_CreatedOnce ==
    /\ ~overlapped =>
          /\ conn_made <= 1
          /\ sess_made <= 1
          /\ HandedConns \subseteq {1}
          /\ HandedSessions \subseteq {1}
    /\ conn_made <= MaxThreads
    /\ HandedConns \subseteq 1..conn_made
    /\ HandedSessions \subseteq 1..sess_made

C25_Witness ==
    /\ ~overlapped
    /\ conn_made = 1 /\ sess_made = 1
    /\ \A t \in Threads : th_pc[t] = "done" /\ th_conn[t] = 1 /\ th_sess[t] = 1

----------------------------------------------------------------------------
(* Properties of the category check *)

\* C26: an unknown category is rejected before any upstream call, with an error that
\* names the invalid value and the allowed set {wifi, wired, wan}, by get_sle_details
\* and its route, by the CSV export route and by get_org_sle_insights (whose error
\* "Invalid sle_type" is the message "Invalid sle_type '<value>'. Must be one of:
\* ['wifi', 'wired', 'wan']").
C26_UnknownCategoryRejected ==
    /\ (pc = "det_raised" /\ category \notin Categories) =>
          /\ calls = <<>>
          /\ det_error # None
          /\ Val(det_error).value = Some(category)
          /\ Val(det_error).allowed = Some(Categories)
    /\ (pc = "exp_done" /\ exp_category \notin Categories) =>
          /\ exp_calls = <<>>
          /\ Val(exp_response).error # None
          /\ Val(Val(exp_response).error).value = Some(exp_category)
          /\ Val(Val(exp_response).error).allowed = Some(Categories)
    /\ (pc = "org_done" /\ org_entry = "insights" /\ org_arg \notin Categories) =>
          /\ org_calls = <<>>
          /\ ~Val(org_result).success
          /\ Val(org_result).error = Some("Invalid sle_type")

----------------------------------------------------------------------------
(* Properties of the availability flag *)

\* C27: in get_site_sle, at every point of the per-metric loop and in the result,
\* a category is available if and only if its metrics map is not empty, whatever
\* fetches failed.
C27_AvailableIffMetrics ==
    InSiteSle =>
        \A cat \in Categories :
            sle_data[cat].available <=> (sle_data[cat].metrics # EmptyMap)

C27_Witness ==
    /\ pc = "sle_done"
    /\ \E i, j \in Processed :
        /\ outcomes[i].kind = "failed"
        /\ outcomes[j].kind = "scored"
        /\ ~sle_data[Val(CategoryOf(enabled_metrics[i]))].available
        /\ sle_data[Val(CategoryOf(enabled_metrics[j]))].available
        /\ sle_data[Val(CategoryOf(enabled_metrics[j]))].metrics # EmptyMap

----------------------------------------------------------------------------
(* Properties of the per-metric processing of get_sle_details *)

\* C28: a stored MetricDetail is either left at its default (sle_value null, no
\* classifiers, empty impact) or fully populated: no entry of the trend response
\* failed, every classifier of the response with non-zero degradation is in the
\* list, and the list is sorted by percentage, highest first.
C28_AllOrNothing ==
    CkDone =>
        LET md == Val(ck_metric_data)
        IN  \/ md = MetricDataInit(md.name)
            \/ /\ \A i \in DOMAIN raw_classifiers : ~ClfSamplesRaise(raw_classifiers[i])
               /\ Len(md.classifiers) = Cardinality(RawNonZero)
               /\ \A k \in 1..(Len(md.classifiers) - 1) :
                     md.classifiers[k].percentage >= md.classifiers[k + 1].percentage

----------------------------------------------------------------------------
(* Properties of the organization id *)

\* the org-scoped upstream calls of the ranker
OrgScopedCalls == {k \in DOMAIN org_calls : org_calls[k].api # "getSelf"}

\* C29: once test_connection has succeeded the connection's org_id is a non-empty
\* value, so every org-scoped upstream call of a request that goes on carries a
\* non-empty organization id; and an org_id that is set is never changed.
C29_OrgIdSetAfterDetection ==
    /\ [](pc \in {"org_pages", "org_rank"} => org_id # None /\ org_id # Some(""))
    /\ [](\A k \in OrgScopedCalls : org_calls[k].org_id # "")
    /\ [][org_id # None => org_id' = org_id]_vars

----------------------------------------------------------------------------
(* Properties of the two entry points of the org-wide ranker *)

OtherEntry(entry) == IF entry = "insights" THEN "by_metric" ELSE "insights"

\* C30: for the same site lookup, limit and upstream ranking response of any shape,
\* get_org_sle_insights and get_org_worst_sites_by_metric return the same success
\* flag and the same sites list.
C30_EntryPointsAgree ==
    (OrgDone /\ org_response # None) =>
        LET other == OrgRankResult(OtherEntry(org_entry), org_duration, org_limit,
                                   site_name_map, Val(org_response))
        IN  /\ other.success = Val(org_result).success
            /\ other.sites = Val(org_result).sites

====
